---- MODULE Spec2Model ----
(***************************************************************************)
(* runevm: class-file loading (crates/runevm_classfile) and constant-pool  *)
(* lookups.  Bytes are naturals 0..255, buffers are sequences of bytes, a  *)
(* Rust String is the sequence of its bytes.  Pure functions of the crate  *)
(* are operators that thread the Stream through explicitly: an operator    *)
(* that takes `&mut Stream` returns [s |-> stream after, ...].             *)
(***************************************************************************)
EXTENDS Integers, Sequences, FiniteSets, TLC

(***************************************************************************)
(* Option<T>, Result<T, ParsingError> and an abort of the process (panic). *)
(***************************************************************************)
None == [some |-> FALSE]
Some(x) == [some |-> TRUE, v |-> x]

Ok(x) == [t |-> "Ok", v |-> x]
Err(e) == [t |-> "Err", e |-> e]
Panic == [t |-> "Panic"]

InvalidMagic == [kind |-> "InvalidMagic"]
InvalidIndex == [kind |-> "InvalidIndex"]
MissingField == [kind |-> "MissingField"]
UnhandledConstant(tag) == [kind |-> "UnhandledConstant", tag |-> tag]

\* The({e : x \in {v}}) is `let x = v; e`, with v evaluated once.
The(S) == CHOOSE x \in S : TRUE

(***************************************************************************)
(* stream.rs: Stream and the FromData readers.                             *)
(***************************************************************************)
Stream_new(data) == [data |-> data, offset |-> 0]

\* a skip that stops at the end of the buffer
advance_clamped(s, len) ==
    [s EXCEPT !.offset = IF @ + len > Len(s.data) THEN Len(s.data) ELSE @ + len]

advance(s, len) == [s EXCEPT !.offset = @ + len]

\* self.data.get(offset..offset+len)?, then advance(len)
read_bytes(s, len) ==
    IF s.offset + len <= Len(s.data)
    THEN [s |-> advance(s, len),
          v |-> Some(SubSeq(s.data, s.offset + 1, s.offset + len))]
    ELSE [s |-> s, v |-> None]

u8_parse(b) == IF Len(b) >= 1 THEN Some(b[1]) ELSE None
\* little-endian decoding
u16_parse_le(b) == IF Len(b) = 2 THEN Some(b[2] * 256 + b[1]) ELSE None
u32_parse_le(b) ==
    IF Len(b) = 4
    THEN Some([hi |-> b[4] * 256 + b[3], lo |-> b[2] * 256 + b[1]])
    ELSE None

u16_parse(b) == IF Len(b) = 2 THEN Some(b[1] * 256 + b[2]) ELSE None
\* A u32 is kept as its two 16-bit halves (the model checker's integers are
\* 32-bit signed); as_usize is the cast `x as usize` / `x as _`.
u32_parse(b) ==
    IF Len(b) = 4
    THEN Some([hi |-> b[1] * 256 + b[2], lo |-> b[3] * 256 + b[4]])
    ELSE None
as_usize(x) == x.hi * 65536 + x.lo

\* read::<T>() = read_bytes(T::SIZE).and_then(T::parse), for T = u8, u16, u32
read_u8(s) ==
    The({ IF rb.v.some THEN [s |-> rb.s, v |-> u8_parse(rb.v.v)]
          ELSE [s |-> rb.s, v |-> None]
        : rb \in {read_bytes(s, 1)} })
read_u16(s) ==
    The({ IF rb.v.some THEN [s |-> rb.s, v |-> u16_parse(rb.v.v)]
          ELSE [s |-> rb.s, v |-> None]
        : rb \in {read_bytes(s, 2)} })
read_u32(s) ==
    The({ IF rb.v.some THEN [s |-> rb.s, v |-> u32_parse(rb.v.v)]
          ELSE [s |-> rb.s, v |-> None]
        : rb \in {read_bytes(s, 4)} })

\* `.ok_or(ParsingError::MissingField)?` on a read that returned none
Missing(rd) == [s |-> rd.s, r |-> Err(MissingField)]
\* `?` inside read_constant, which returns an Option
Absent(rd) == [s |-> rd.s, v |-> None]

(***************************************************************************)
(* stream.rs again, with the width of usize.  The loader above never gets  *)
(* near it; a caller of the public Stream can.  `offset + len` is a usize  *)
(* addition: past UsizeMax it aborts when the build checks overflow (the   *)
(* default of a debug build) and wraps otherwise (the default of a release *)
(* build).  UsizeMax is that of a 16-bit target; wider targets do the same *)
(* at a larger number.                                                     *)
(***************************************************************************)
UsizeMax == 65535

\* a + b in usize: [ok |-> did not overflow, v |-> wrapped sum]
usize_add(a, b) ==
    [ok |-> a + b <= UsizeMax, v |-> (a + b) % (UsizeMax + 1)]

\* Stream::advance: self.offset += len
Stream_advance(s, len, overflow_checks) ==
    The({ IF ~sum.ok /\ overflow_checks THEN [s |-> s, r |-> Panic]
          ELSE [s |-> [s EXCEPT !.offset = sum.v], r |-> Ok(None)]
        : sum \in {usize_add(s.offset, len)} })

\* slice::get(start..end): none when start > end or end > len
slice_get(bytes, start, end) ==
    IF start > end \/ end > Len(bytes) THEN None
    ELSE Some(SubSeq(bytes, start + 1, end))

\* Stream::read_bytes: data.get(offset..offset + len)?, advance(len)
Stream_read_bytes(s, len, overflow_checks) ==
    The({ IF ~end.ok /\ overflow_checks THEN [s |-> s, r |-> Panic] ELSE
    The({ IF ~slice.some THEN [s |-> s, r |-> Ok(None)] ELSE
    The({ IF advanced.r.t = "Panic" THEN advanced
          ELSE [s |-> advanced.s, r |-> Ok(slice)]
        : advanced \in {Stream_advance(s, len, overflow_checks)} })
        : slice \in {slice_get(s.data, s.offset, end.v)} })
        : end \in {usize_add(s.offset, len)} })

\* T::SIZE and T::parse for T = u8, u16, u32
FromData_parse(size, b) ==
    CASE size = 1 -> u8_parse(b)
      [] size = 2 -> u16_parse(b)
      [] size = 4 -> u32_parse(b)

\* Stream::read::<T>: read_bytes(T::SIZE).and_then(T::parse)
Stream_read(s, size, overflow_checks) ==
    The({ IF rb.r.t = "Panic" \/ ~rb.r.v.some THEN rb
          ELSE [s |-> rb.s, r |-> Ok(FromData_parse(size, rb.r.v.v))]
        : rb \in {Stream_read_bytes(s, size, overflow_checks)} })

(***************************************************************************)
(* constant_pool.rs: Constant, ConstantPool::parse, read_constant,         *)
(* resolve_name.                                                           *)
(***************************************************************************)
Utf8(data) == [kind |-> "Utf8", data |-> data]
Class(i) == [kind |-> "Class", a |-> i]
String(i) == [kind |-> "String", a |-> i]
FieldRef(c, n) == [kind |-> "FieldRef", a |-> c, b |-> n]
MethodRef(c, n) == [kind |-> "MethodRef", a |-> c, b |-> n]
NameAndType(n, d) == [kind |-> "NameAndType", a |-> n, b |-> d]

read_constant(s, tag) ==
    CASE tag = 1 ->
            The({ IF ~length.v.some THEN Absent(length) ELSE
            The({ IF buf.v.some
                  THEN [s |-> buf.s, v |-> Some(Utf8(buf.v.v))]
                  ELSE Absent(buf)
                : buf \in {read_bytes(length.s, length.v.v)} })
                : length \in {read_u16(s)} })
      [] tag = 7 ->
            The({ IF ~class_index.v.some THEN Absent(class_index) ELSE
                  [s |-> class_index.s, v |-> Some(Class(class_index.v.v))]
                : class_index \in {read_u16(s)} })
      [] tag = 8 ->
            The({ IF ~string_index.v.some THEN Absent(string_index) ELSE
                  [s |-> string_index.s, v |-> Some(String(string_index.v.v))]
                : string_index \in {read_u16(s)} })
      [] tag = 9 ->
            The({ IF ~class_index.v.some THEN Absent(class_index) ELSE
            The({ IF ~nametype_index.v.some THEN Absent(nametype_index) ELSE
                  [s |-> nametype_index.s,
                   v |-> Some(FieldRef(class_index.v.v, nametype_index.v.v))]
                : nametype_index \in {read_u16(class_index.s)} })
                : class_index \in {read_u16(s)} })
      [] tag = 10 ->
            The({ IF ~class_index.v.some THEN Absent(class_index) ELSE
            The({ IF ~nametype_index.v.some THEN Absent(nametype_index) ELSE
                  [s |-> nametype_index.s,
                   v |-> Some(MethodRef(class_index.v.v, nametype_index.v.v))]
                : nametype_index \in {read_u16(class_index.s)} })
                : class_index \in {read_u16(s)} })
      [] tag = 12 ->
            The({ IF ~name_index.v.some THEN Absent(name_index) ELSE
            The({ IF ~descriptor_index.v.some THEN Absent(descriptor_index) ELSE
                  [s |-> descriptor_index.s,
                   v |-> Some(NameAndType(name_index.v.v, descriptor_index.v.v))]
                : descriptor_index \in {read_u16(name_index.s)} })
                : name_index \in {read_u16(s)} })
      [] OTHER -> [s |-> s, v |-> None]

\* the body of `for _ in 1..count`, n iterations left
RECURSIVE ConstantPool_parse_loop(_, _, _)
ConstantPool_parse_loop(s, n, constants) ==
    IF n = 0 THEN [s |-> s, r |-> Ok([items |-> constants])]
    ELSE
    The({ IF ~tag.v.some THEN Missing(tag) ELSE
    The({ IF constant.v.some
          THEN ConstantPool_parse_loop(constant.s, n - 1,
                                       Append(constants, constant.v.v))
          ELSE [s |-> constant.s, r |-> Err(UnhandledConstant(tag.v.v))]
        : constant \in {read_constant(tag.s, tag.v.v)} })
        : tag \in {read_u8(s)} })

\* reads `count` entries instead of `count - 1`
ConstantPool_parse_all(s, count) ==
    IF count = 0 THEN [s |-> s, r |-> Panic]
    ELSE ConstantPool_parse_loop(s, count, <<>>)

\* Vec::with_capacity(count as usize - 1): with count = 0 the subtraction
\* overflows (debug build) or asks for usize::MAX elements (release build);
\* both abort.
ConstantPool_parse(s, count) ==
    IF count = 0 THEN [s |-> s, r |-> Panic]
    ELSE ConstantPool_parse_loop(s, count - 1, <<>>)

\* &self.items[name_index as usize - 1]: index 0 and indices past the end
\* abort; the result is Panic or Ok(an Option<String>).
resolve_name(pool, name_index) ==
    IF name_index = 0 \/ name_index > Len(pool.items) THEN Panic
    ELSE IF pool.items[name_index].kind = "Utf8"
         THEN Ok(Some(pool.items[name_index].data))
         ELSE Ok(None)

(***************************************************************************)
(* attributes.rs: Attribute, read_attributes, read_exception_table.        *)
(* The attribute names the decoder matches, as bytes.                      *)
(***************************************************************************)
StrConstantValue == <<67, 111, 110, 115, 116, 97, 110, 116, 86, 97, 108, 117, 101>>
StrCode == <<67, 111, 100, 101>>
StrSourceFile == <<83, 111, 117, 114, 99, 101, 70, 105, 108, 101>>

\* Ghost fields of a decoded attribute, not part of the Rust value: the
\* offset of its name-index field, its declared length and the offset of
\* the cursor when the loop iteration that decoded it ends.
Placed(attr, at, length, end) ==
    attr @@ [at |-> at, length |-> length, end |-> end]

\* the body of `for _ in 0..exception_table_length`, n iterations left
RECURSIVE read_exception_table_loop(_, _, _)
read_exception_table_loop(s, n, exceptions) ==
    IF n = 0 THEN [s |-> s, r |-> Ok(exceptions)]
    ELSE
    The({ IF ~start_pc.v.some THEN Missing(start_pc) ELSE
    The({ IF ~end_pc.v.some THEN Missing(end_pc) ELSE
    The({ IF ~handler_pc.v.some THEN Missing(handler_pc) ELSE
    The({ IF ~catch_type.v.some THEN Missing(catch_type) ELSE
          read_exception_table_loop(catch_type.s, n - 1,
              Append(exceptions,
                     [start_pc |-> start_pc.v.v, end_pc |-> end_pc.v.v,
                      handler_pc |-> handler_pc.v.v,
                      catch_type |-> catch_type.v.v]))
        : catch_type \in {read_u16(handler_pc.s)} })
        : handler_pc \in {read_u16(end_pc.s)} })
        : end_pc \in {read_u16(start_pc.s)} })
        : start_pc \in {read_u16(s)} })

read_exception_table(s) ==
    The({ IF ~exception_table_length.v.some
          THEN Missing(exception_table_length)
          ELSE read_exception_table_loop(exception_table_length.s,
                                         exception_table_length.v.v, <<>>)
        : exception_table_length \in {read_u16(s)} })

RECURSIVE read_attributes(_, _)
RECURSIVE read_attributes_loop(_, _, _, _)
RECURSIVE read_attribute(_, _, _)

\* `let attribute = match attribute_name.as_str() { .. }`: Ok(Some(attr)),
\* Ok(None) for a name that is not recognized, or the error of a `?`
read_attribute(s, constant_pool, attribute_name) ==
    CASE attribute_name = StrConstantValue ->
            The({ IF ~constant_index.v.some THEN Missing(constant_index) ELSE
                  [s |-> constant_index.s,
                   r |-> Ok(Some([kind |-> "ConstantValue",
                                  index |-> constant_index.v.v]))]
                : constant_index \in {read_u16(s)} })
      [] attribute_name = StrCode ->
            The({ IF ~max_stack.v.some THEN Missing(max_stack) ELSE
            The({ IF ~max_locals.v.some THEN Missing(max_locals) ELSE
            The({ IF ~code_length.v.some THEN Missing(code_length) ELSE
            The({ IF ~code_bytes.v.some THEN Missing(code_bytes) ELSE
            The({ IF exceptions.r.t # "Ok" THEN exceptions ELSE
            The({ IF attributes.r.t # "Ok" THEN attributes ELSE
                  [s |-> attributes.s,
                   r |-> Ok(Some([kind |-> "Code",
                                  max_stack |-> max_stack.v.v,
                                  max_locals |-> max_locals.v.v,
                                  code |-> code_bytes.v.v,
                                  exceptions |-> exceptions.r.v,
                                  attributes |-> attributes.r.v]))]
                : attributes \in {read_attributes(exceptions.s, constant_pool)} })
                : exceptions \in {read_exception_table(code_bytes.s)} })
                : code_bytes \in {read_bytes(code_length.s,
                                             as_usize(code_length.v.v))} })
                : code_length \in {read_u32(max_locals.s)} })
                : max_locals \in {read_u16(max_stack.s)} })
                : max_stack \in {read_u16(s)} })
      [] attribute_name = StrSourceFile ->
            The({ IF ~name_index.v.some THEN Missing(name_index) ELSE
                  [s |-> name_index.s,
                   r |-> Ok(Some([kind |-> "SourceFile",
                                  index |-> name_index.v.v]))]
                : name_index \in {read_u16(s)} })
      [] OTHER -> [s |-> s, r |-> Ok(None)]

\* the body of `for _ in 0..attributes_count`, n iterations left
read_attributes_loop(s, constant_pool, n, attributes) ==
    IF n = 0 THEN [s |-> s, r |-> Ok(attributes)]
    ELSE
    The({ IF ~name_index.v.some THEN Missing(name_index) ELSE
    The({ IF ~length.v.some THEN Missing(length) ELSE
    The({ IF attribute_name.t = "Panic" THEN [s |-> length.s, r |-> Panic] ELSE
          IF ~attribute_name.v.some
          THEN [s |-> length.s, r |-> Err(InvalidIndex)] ELSE
    The({ IF attribute.r.t # "Ok" THEN attribute ELSE
          IF attribute.r.v.some
          THEN read_attributes_loop(attribute.s, constant_pool, n - 1,
                  Append(attributes,
                         Placed(attribute.r.v.v, s.offset,
                                as_usize(length.v.v), attribute.s.offset)))
          ELSE \* push Unhandled(attribute_name); stream.advance(length as _)
          The({ read_attributes_loop(skipped, constant_pool, n - 1,
                  Append(attributes,
                         Placed([kind |-> "Unhandled",
                                 name |-> attribute_name.v.v], s.offset,
                                as_usize(length.v.v), skipped.offset)))
              : skipped \in {advance(attribute.s, as_usize(length.v.v))} })
        : attribute \in {read_attribute(length.s, constant_pool,
                                        attribute_name.v.v)} })
        : attribute_name \in {resolve_name(constant_pool, name_index.v.v)} })
        : length \in {read_u32(name_index.s)} })
        : name_index \in {read_u16(s)} })

read_attributes(s, constant_pool) ==
    The({ IF ~attributes_count.v.some THEN Missing(attributes_count)
          ELSE read_attributes_loop(attributes_count.s, constant_pool,
                                    attributes_count.v.v, <<>>)
        : attributes_count \in {read_u16(s)} })

(***************************************************************************)
(* lib.rs: Field::parse, Method::parse, ClassFile::parse.                  *)
(***************************************************************************)
MagicHi == 51966    \* 0xCAFE
MagicLo == 47806    \* 0xBABE
Magic == [hi |-> MagicHi, lo |-> MagicLo]

\* `at` is a ghost field: the offset of the record's access_flags.
Field_parse(s, constant_pool) ==
    The({ IF ~access_flags.v.some THEN Missing(access_flags) ELSE
    The({ IF ~name_index.v.some THEN Missing(name_index) ELSE
    The({ IF ~descriptor_index.v.some THEN Missing(descriptor_index) ELSE
    The({ IF attributes.r.t # "Ok" THEN attributes ELSE
          [s |-> attributes.s,
           r |-> Ok([access_flags |-> access_flags.v.v,
                     name_index |-> name_index.v.v,
                     descriptor_index |-> descriptor_index.v.v,
                     attributes |-> attributes.r.v,
                     at |-> s.offset])]
        : attributes \in {read_attributes(descriptor_index.s, constant_pool)} })
        : descriptor_index \in {read_u16(name_index.s)} })
        : name_index \in {read_u16(access_flags.s)} })
        : access_flags \in {read_u16(s)} })

Method_parse(s, constant_pool) ==
    The({ IF ~access_flags.v.some THEN Missing(access_flags) ELSE
    The({ IF ~name_index.v.some THEN Missing(name_index) ELSE
    The({ IF ~descriptor_index.v.some THEN Missing(descriptor_index) ELSE
    The({ IF attributes.r.t # "Ok" THEN attributes ELSE
          [s |-> attributes.s,
           r |-> Ok([access_flags |-> access_flags.v.v,
                     name_index |-> name_index.v.v,
                     descriptor_index |-> descriptor_index.v.v,
                     attributes |-> attributes.r.v,
                     at |-> s.offset])]
        : attributes \in {read_attributes(descriptor_index.s, constant_pool)} })
        : descriptor_index \in {read_u16(name_index.s)} })
        : name_index \in {read_u16(access_flags.s)} })
        : access_flags \in {read_u16(s)} })

\* Method::maxs: the maxima of the first Code attribute, from attribute i on
RECURSIVE Method_maxs_from(_, _)
Method_maxs_from(attributes, i) ==
    IF i > Len(attributes) THEN None
    ELSE IF attributes[i].kind = "Code"
    THEN Some(<<attributes[i].max_stack, attributes[i].max_locals>>)
    ELSE Method_maxs_from(attributes, i + 1)

Method_maxs(m) == Method_maxs_from(m.attributes, 1)

\* Method::code: the bytes of the first Code attribute, from attribute i on
RECURSIVE Method_code_from(_, _)
Method_code_from(attributes, i) ==
    IF i > Len(attributes) THEN None
    ELSE IF attributes[i].kind = "Code" THEN Some(attributes[i].code)
    ELSE Method_code_from(attributes, i + 1)

\* a code() that answers with the last Code attribute
Method_code_last(m) ==
    The({ IF codes = {} THEN None
          ELSE Some(m.attributes[CHOOSE j \in codes : \A k \in codes : k <= j].code)
        : codes \in {{j \in 1..Len(m.attributes) : m.attributes[j].kind = "Code"}} })

Method_code(m) == Method_code_from(m.attributes, 1)

\* `for _ in 0..interfaces_count { interfaces.push(read::<u16>()?) }`
RECURSIVE read_interfaces_loop(_, _, _)
read_interfaces_loop(s, n, interfaces) ==
    IF n = 0 THEN [s |-> s, r |-> Ok(interfaces)]
    ELSE The({ IF ~i.v.some THEN Missing(i)
               ELSE read_interfaces_loop(i.s, n - 1, Append(interfaces, i.v.v))
             : i \in {read_u16(s)} })

\* `for _ in 0..fields_count { fields.push(Field::parse(..)?) }`
RECURSIVE read_fields_loop(_, _, _, _)
read_fields_loop(s, constant_pool, n, fields) ==
    IF n = 0 THEN [s |-> s, r |-> Ok(fields)]
    ELSE The({ IF f.r.t # "Ok" THEN f
               ELSE read_fields_loop(f.s, constant_pool, n - 1,
                                     Append(fields, f.r.v))
             : f \in {Field_parse(s, constant_pool)} })

\* `for _ in 0..methods_count { methods.push(Method::parse(..)?) }`
RECURSIVE read_methods_loop(_, _, _, _)

\* a loop that puts each method in front of the ones read before it
read_methods_loop_front(s, constant_pool, n, methods) ==
    IF n = 0 THEN [s |-> s, r |-> Ok(methods)]
    ELSE The({ IF m.r.t # "Ok" THEN m
               ELSE read_methods_loop(m.s, constant_pool, n - 1,
                                      <<m.r.v>> \o methods)
             : m \in {Method_parse(s, constant_pool)} })

read_methods_loop(s, constant_pool, n, methods) ==
    IF n = 0 THEN [s |-> s, r |-> Ok(methods)]
    ELSE The({ IF m.r.t # "Ok" THEN m
               ELSE read_methods_loop(m.s, constant_pool, n - 1,
                                      Append(methods, m.r.v))
             : m \in {Method_parse(s, constant_pool)} })

\* ClassFile::parse(data); `s` is the local Stream when parse returns, and
\* the *_at fields are ghosts: the offsets of the four count fields.
ClassFile_parse(data) ==
    The({ IF magic.v # Some(Magic)
          THEN [s |-> magic.s, r |-> Err(InvalidMagic)] ELSE
    The({ IF ~minor_version.v.some THEN Missing(minor_version) ELSE
    The({ IF ~major_version.v.some THEN Missing(major_version) ELSE
    The({ IF ~constant_pool_count.v.some THEN Missing(constant_pool_count) ELSE
    The({ IF constant_pool.r.t # "Ok" THEN constant_pool ELSE
    The({ IF ~access_flags.v.some THEN Missing(access_flags) ELSE
    The({ IF ~this_class.v.some THEN Missing(this_class) ELSE
    The({ IF ~super_class.v.some THEN Missing(super_class) ELSE
    The({ IF ~interfaces_count.v.some THEN Missing(interfaces_count) ELSE
    The({ IF interfaces.r.t # "Ok" THEN interfaces ELSE
    The({ IF ~fields_count.v.some THEN Missing(fields_count) ELSE
    The({ IF fields.r.t # "Ok" THEN fields ELSE
    The({ IF ~methods_count.v.some THEN Missing(methods_count) ELSE
    The({ IF methods.r.t # "Ok" THEN methods ELSE
    The({ IF attributes.r.t # "Ok" THEN attributes ELSE
          [s |-> attributes.s,
           r |-> Ok([minor_version |-> minor_version.v.v,
                     major_version |-> major_version.v.v,
                     constant_pool |-> constant_pool.r.v,
                     access_flags |-> access_flags.v.v,
                     this_class |-> this_class.v.v,
                     super_class |-> super_class.v.v,
                     interfaces |-> interfaces.r.v,
                     fields |-> fields.r.v,
                     methods |-> methods.r.v,
                     attributes |-> attributes.r.v,
                     interfaces_at |-> super_class.s.offset,
                     fields_at |-> interfaces.s.offset,
                     methods_at |-> fields.s.offset,
                     attributes_at |-> methods.s.offset])]
        : attributes \in {read_attributes(methods.s, constant_pool.r.v)} })
        : methods \in {read_methods_loop(methods_count.s, constant_pool.r.v,
                                         methods_count.v.v, <<>>)} })
        : methods_count \in {read_u16(fields.s)} })
        : fields \in {read_fields_loop(fields_count.s, constant_pool.r.v,
                                       fields_count.v.v, <<>>)} })
        : fields_count \in {read_u16(interfaces.s)} })
        : interfaces \in {read_interfaces_loop(interfaces_count.s,
                                               interfaces_count.v.v, <<>>)} })
        : interfaces_count \in {read_u16(super_class.s)} })
        : super_class \in {read_u16(this_class.s)} })
        : this_class \in {read_u16(access_flags.s)} })
        : access_flags \in {read_u16(constant_pool.s)} })
        : constant_pool \in {ConstantPool_parse(constant_pool_count.s,
                                                constant_pool_count.v.v)} })
        : constant_pool_count \in {read_u16(major_version.s)} })
        : major_version \in {read_u16(minor_version.s)} })
        : minor_version \in {read_u16(magic.s)} })
        : magic \in {read_u32(Stream_new(data))} })

(***************************************************************************)
(* The class-file buffers handed to the loader.  A buffer is the encoding  *)
(* (section 6 layout, big-endian) of a class description, cut after        *)
(* `cut` bytes.  A description is well formed when every attribute name    *)
(* index names a Utf8 entry, every declared attribute length equals the    *)
(* length of the payload that follows, every pool tag is a recognized one  *)
(* and the magic and the pool count are right.                             *)
(***************************************************************************)
MaxSkip == 2        \* longest payload of an unrecognized attribute
MaxAttrs == 2       \* longest class-level attribute list
MaxNest == 1        \* Code attributes nested inside Code attributes
MaxMembers == 2     \* longest interface, field and method list

U16(n) == <<(n \div 256) % 256, n % 256>>
U32(n) == <<(n \div 16777216) % 256, (n \div 65536) % 256,
            (n \div 256) % 256, n % 256>>

RECURSIVE Concat(_)
Concat(ss) == IF ss = <<>> THEN <<>> ELSE Head(ss) \o Concat(Tail(ss))

Raw(tag, bytes) == [kind |-> "Raw", tag |-> tag, bytes |-> bytes]

EncConstant(c) ==
    CASE c.kind = "Utf8" -> <<1>> \o U16(Len(c.data)) \o c.data
      [] c.kind = "Class" -> <<7>> \o U16(c.a)
      [] c.kind = "String" -> <<8>> \o U16(c.a)
      [] c.kind = "FieldRef" -> <<9>> \o U16(c.a) \o U16(c.b)
      [] c.kind = "MethodRef" -> <<10>> \o U16(c.a) \o U16(c.b)
      [] c.kind = "NameAndType" -> <<12>> \o U16(c.a) \o U16(c.b)
      [] c.kind = "Raw" -> <<c.tag>> \o c.bytes

EncException(e) ==
    U16(e.start_pc) \o U16(e.end_pc) \o U16(e.handler_pc) \o U16(e.catch_type)

RECURSIVE EncAttr(_)
RECURSIVE EncAttrs(_)
RECURSIVE EncCodeBody(_)
EncCodeBody(a) ==
    U16(a.max_stack) \o U16(a.max_locals) \o U32(Len(a.code)) \o a.code
    \o U16(Len(a.exceptions))
    \o Concat([i \in 1..Len(a.exceptions) |-> EncException(a.exceptions[i])])
    \o EncAttrs(a.attributes)
EncAttr(a) ==
    IF a.k = "code"
    THEN U16(a.name_index) \o U32(Len(EncCodeBody(a)) + a.delta)
         \o EncCodeBody(a)
    ELSE U16(a.name_index) \o U32(a.length) \o a.body
EncAttrs(as) ==
    U16(Len(as)) \o Concat([i \in 1..Len(as) |-> EncAttr(as[i])])

EncMember(m) ==
    U16(m.access_flags) \o U16(m.name_index) \o U16(m.descriptor_index)
    \o EncAttrs(m.attributes)

EncClass(c) ==
    c.magic \o U16(c.minor_version) \o U16(c.major_version)
    \o U16(c.count) \o Concat([i \in 1..Len(c.pool) |-> EncConstant(c.pool[i])])
    \o U16(c.access_flags) \o U16(c.this_class) \o U16(c.super_class)
    \o U16(Len(c.interfaces))
    \o Concat([i \in 1..Len(c.interfaces) |-> U16(c.interfaces[i])])
    \o U16(Len(c.fields))
    \o Concat([i \in 1..Len(c.fields) |-> EncMember(c.fields[i])])
    \o U16(Len(c.methods))
    \o Concat([i \in 1..Len(c.methods) |-> EncMember(c.methods[i])])
    \o EncAttrs(c.attributes)

\* sequences over S of length 0..n
RECURSIVE SeqsUpTo(_, _)
SeqsUpTo(S, n) ==
    IF n = 0 THEN {<<>>}
    ELSE LET shorter == SeqsUpTo(S, n - 1)
         IN  shorter \cup {Append(q, x) : q \in {r \in shorter : Len(r) = n - 1},
                                          x \in S}

CafeBabe == <<202, 254, 186, 190>>
StrX == <<88>>
\* payload bytes that themselves look like an attribute header
Payload == <<0, 1, 0, 0, 0, 12, 255>>

\* 1 "Code", 2 "X", 3 Class, 4 NameAndType, 5 FieldRef, 6 MethodRef,
\* 7 String, 8 "ConstantValue", 9 "SourceFile"
Pool1 == <<Utf8(StrCode), Utf8(StrX), Class(2), NameAndType(2, 2),
           FieldRef(3, 4), MethodRef(3, 4), String(2),
           Utf8(StrConstantValue), Utf8(StrSourceFile)>>

AttrRaw(name_index, length, body) ==
    [k |-> "raw", name_index |-> name_index, length |-> length, body |-> body]
AttrCode(delta, code, exceptions, attributes) ==
    [k |-> "code", name_index |-> 1, delta |-> delta, max_stack |-> 2,
     max_locals |-> 1, code |-> code, exceptions |-> exceptions,
     attributes |-> attributes]

AttrUnhandled(n) == AttrRaw(2, n, SubSeq(Payload, 1, n))
AttrConstantValue == AttrRaw(8, 2, U16(7))
AttrSourceFile == AttrRaw(9, 2, U16(2))
Exception1 == [start_pc |-> 0, end_pc |-> 2, handler_pc |-> 2, catch_type |-> 3]
CodeBase == AttrCode(0, <<16, 5>>, <<>>, <<>>)

\* attributes of a well-formed file, without and with Code
AttrsPlain ==
    {AttrUnhandled(n) : n \in 0..MaxSkip} \cup {AttrConstantValue, AttrSourceFile}
RECURSIVE AttrsWF(_)
AttrsWF(depth) ==
    AttrsPlain \cup
    (IF depth = 0 THEN {}
     ELSE {CodeBase, AttrCode(0, <<>>, <<>>, <<>>),
           AttrCode(0, <<16, 5>>, <<Exception1>>, <<>>)}
          \cup {AttrCode(0, <<16, 5>>, <<>>, <<a>>) : a \in AttrsWF(depth - 1)})

\* attributes no well-formed file holds: a name index that is a Class
\* entry, 0 or past the pool; a Code whose declared length is not the
\* length of its payload
AttrsBad ==
    {AttrRaw(3, 0, <<>>), AttrRaw(0, 0, <<>>), AttrRaw(10, 0, <<>>),
     AttrCode(1, <<16, 5>>, <<>>, <<>>), AttrCode(-1, <<16, 5>>, <<>>, <<>>),
     AttrCode(-12, <<>>, <<>>, <<>>),
     AttrCode(2, <<>>, <<>>, <<AttrUnhandled(1)>>)}

\* the attribute lists that longer lists are built from
AttrsCore == {AttrUnhandled(0), AttrUnhandled(MaxSkip), AttrSourceFile, CodeBase}

AttrLists ==
    SeqsUpTo(AttrsCore, MaxAttrs)
    \cup {<<a>> : a \in AttrsWF(MaxNest + 1)}
    \cup {<<a, AttrUnhandled(1)>> : a \in AttrsWF(MaxNest + 1)}

Member(flags, name, desc, attributes) ==
    [access_flags |-> flags, name_index |-> name, descriptor_index |-> desc,
     attributes |-> attributes]
MemberLists ==
    SeqsUpTo({Member(1, 2, 2, <<>>), Member(9, 1, 2, <<CodeBase>>),
              Member(0, 2, 1, <<AttrUnhandled(1)>>)}, MaxMembers)

\* a method with two Code attributes that differ, after an attribute that
\* is not a Code, next to one with no Code and one with no attribute
CodeOther ==
    [AttrCode(0, <<18, 1, 54, 0>>, <<>>, <<>>) EXCEPT
        !.max_stack = 1, !.max_locals = 3]
TwoCodeLists ==
    {<<Member(9, 2, 2, <<AttrUnhandled(1), CodeOther, CodeBase>>),
       Member(1, 2, 2, <<AttrSourceFile>>)>>,
     <<Member(1, 2, 2, <<>>),
       Member(9, 2, 2, <<CodeBase, AttrUnhandled(0), CodeOther>>)>>}

ClassDesc(pool, interfaces, fields, methods, attributes) ==
    [magic |-> CafeBabe, minor_version |-> 0, major_version |-> 52,
     count |-> Len(pool) + 1, pool |-> pool, access_flags |-> 33,
     this_class |-> 3, super_class |-> 0, interfaces |-> interfaces,
     fields |-> fields, methods |-> methods, attributes |-> attributes]

\* the minimal class file of the spec's scenario
Minimal ==
    [ClassDesc(<<>>, <<>>, <<>>, <<>>, <<>>) EXCEPT !.this_class = 0]

ClassesWF ==
    {Minimal}
    \cup {ClassDesc(Pool1, <<>>, <<>>, <<>>, al) : al \in AttrLists}
    \cup {ClassDesc(Pool1, <<>>, fl, <<>>, <<>>) : fl \in MemberLists}
    \cup {ClassDesc(Pool1, <<>>, <<>>, ml, <<AttrSourceFile>>) : ml \in MemberLists}
    \cup {ClassDesc(Pool1, il, <<Member(1, 2, 2, <<AttrConstantValue>>)>>,
                    <<Member(9, 1, 2, <<CodeBase>>)>>, <<AttrUnhandled(1)>>) :
              il \in SeqsUpTo({3, 258}, MaxMembers)}
    \cup {ClassDesc(SubSeq(Pool1, 1, n), <<>>, <<>>, <<>>, <<>>) : n \in 0..Len(Pool1)}
    \cup {ClassDesc(Pool1, <<>>, <<>>, ml, <<>>) : ml \in TwoCodeLists}

BadTags == {0, 3, 5, 11, 255}
BadMagics == {<<202, 254, 186, 191>>, <<190, 186, 254, 202>>, <<0, 0, 0, 0>>}

ClassesBad ==
    {ClassDesc(Pool1, <<>>, <<>>, <<>>, <<a>>) : a \in AttrsBad}
    \cup {ClassDesc(Pool1, <<>>, <<>>, <<Member(9, 1, 2, <<a>>)>>, <<AttrUnhandled(1)>>) :
             a \in AttrsBad}
    \cup {ClassDesc([Pool1 EXCEPT ![n] = Raw(tag, <<0, 0, 0, 7>>)],
                    <<>>, <<>>, <<>>, <<>>) : n \in {1, 3, 9}, tag \in BadTags}
    \cup {[ClassDesc(Pool1, <<>>, <<>>, <<>>, <<>>) EXCEPT !.count = n] : n \in {0, 3}}
    \cup {[c EXCEPT !.magic = m] :
             c \in {Minimal, ClassDesc(Pool1, <<>>, <<>>, <<>>, <<CodeBase>>)},
             m \in BadMagics}

Classes == [wf : {TRUE}, class : ClassesWF] \cup [wf : {FALSE}, class : ClassesBad]

(***************************************************************************)
(* parser.rs: Constant, ConstantPool and its lookups, ClassFile::get_method.*)
(* A lookup that aborts (index out of range, `panic!()`, `unwrap()` of     *)
(* none) yields Panic, one that returns yields Ok(value).                  *)
(***************************************************************************)
Integer(v) == [kind |-> "Integer", v |-> v]
Field(c, n) == [kind |-> "Field", a |-> c, b |-> n]
Method(c, n) == [kind |-> "Method", a |-> c, b |-> n]

\* &self.items[index as usize - 1]: for index 0 the subtraction aborts
\* (overflow checks on) or wraps to usize::MAX, which is past the end like
\* every index > items.len(); indexing past the end aborts.
get(pool, index) ==
    IF index = 0 \/ index > Len(pool.items) THEN Panic
    ELSE Ok(pool.items[index])

\* a lookup that answers an entry of another kind with the empty string
utf8_lenient(pool, index) ==
    The({ IF c.t = "Panic" THEN Panic
          ELSE IF c.v.kind = "Utf8" THEN Ok(c.v.data) ELSE Ok(<<>>)
        : c \in {get(pool, index)} })

utf8(pool, index) ==
    The({ IF c.t = "Panic" THEN Panic
          ELSE IF c.v.kind = "Utf8" THEN Ok(c.v.data) ELSE Panic
        : c \in {get(pool, index)} })

integer(pool, index) ==
    The({ IF c.t = "Panic" THEN Panic
          ELSE IF c.v.kind = "Integer" THEN Ok(c.v.v) ELSE Panic
        : c \in {get(pool, index)} })

name_and_type(pool, index) ==
    The({ IF c.t = "Panic" THEN Panic
          ELSE IF c.v.kind # "NameAndType" THEN Panic ELSE
          The({ IF name.t = "Panic" THEN Panic ELSE
          The({ IF descriptor.t = "Panic" THEN Panic
                ELSE Ok(<<name.v, descriptor.v>>)
              : descriptor \in {utf8(pool, c.v.b)} })
              : name \in {utf8(pool, c.v.a)} })
        : c \in {get(pool, index)} })

class(pool, index) ==
    The({ IF c.t = "Panic" THEN Panic
          ELSE IF c.v.kind = "Class" THEN utf8(pool, c.v.a) ELSE Panic
        : c \in {get(pool, index)} })

field(pool, index) ==
    The({ IF c.t = "Panic" THEN Panic
          ELSE IF c.v.kind = "Field" THEN Ok(<<c.v.a, c.v.b>>) ELSE Panic
        : c \in {get(pool, index)} })

method(pool, index) ==
    The({ IF c.t = "Panic" THEN Panic
          ELSE IF c.v.kind = "Method" THEN Ok(<<c.v.a, c.v.b>>) ELSE Panic
        : c \in {get(pool, index)} })

\* a closure that accepts a method when its name or its descriptor matches
get_method_closure_either(class_file, m, name, descriptor) ==
    The({ IF method_name.t = "Panic" THEN Panic ELSE
    The({ IF method_descriptor.t = "Panic" THEN Panic
          ELSE Ok(method_name.v = name \/ method_descriptor.v = descriptor)
        : method_descriptor \in {utf8(class_file.constant_pool,
                                      m.descriptor_index)} })
        : method_name \in {utf8(class_file.constant_pool, m.name_index)} })

\* the closure handed to find(): both names are looked up, then compared
get_method_closure(class_file, m, name, descriptor) ==
    The({ IF method_name.t = "Panic" THEN Panic ELSE
    The({ IF method_descriptor.t = "Panic" THEN Panic
          ELSE Ok(method_name.v = name /\ method_descriptor.v = descriptor)
        : method_descriptor \in {utf8(class_file.constant_pool,
                                      m.descriptor_index)} })
        : method_name \in {utf8(class_file.constant_pool, m.name_index)} })

\* self.methods.iter().find(closure) from position i on, then .unwrap();
\* `pos` is a ghost: the position of the method the reference points at.
RECURSIVE get_method_find(_, _, _, _)
get_method_find(class_file, name, descriptor, i) ==
    IF i > Len(class_file.methods) THEN Panic
    ELSE The({ IF found.t = "Panic" THEN Panic
               ELSE IF found.v
                    THEN Ok([pos |-> i, method |-> class_file.methods[i]])
                    ELSE get_method_find(class_file, name, descriptor, i + 1)
             : found \in {get_method_closure(class_file, class_file.methods[i],
                                             name, descriptor)} })

get_method(class_file, name, descriptor) ==
    get_method_find(class_file, name, descriptor, 1)

(***************************************************************************)
(* parser.rs: Attribute and MethodInfo::code; runtime/frame.rs: Frame;     *)
(* runtime/thread.rs: JavaThread.  What execute prints is left out.        *)
(***************************************************************************)
Attribute_ConstantValue(index) == [kind |-> "ConstantValue", index |-> index]
Attribute_Code(max_stack, max_locals, code) ==
    [kind |-> "Code", max_stack |-> max_stack, max_locals |-> max_locals,
     code |-> code]
Attribute_Unknown(name_index) == [kind |-> "Unknown", name_index |-> name_index]

\* attributes.iter().find_map(Code { code, .. } => Some(code)) from i on
RECURSIVE find_map_code(_, _)
find_map_code(attributes, i) ==
    IF i > Len(attributes) THEN None
    ELSE IF attributes[i].kind = "Code" THEN Some(attributes[i].code)
    ELSE find_map_code(attributes, i + 1)

\* MethodInfo::code: find_map(..).unwrap()
MethodInfo_code(m) ==
    The({ IF found.some THEN Ok(found.v) ELSE Panic
        : found \in {find_map_code(m.attributes, 1)} })

\* the Instruction variants Frame::execute tells apart, and any other one
Getstatic(index) == [op |-> "Getstatic", index |-> index]
Ldc(index) == [op |-> "Ldc", index |-> index]
Bipush(value) == [op |-> "Bipush", value |-> value]
Istore(index) == [op |-> "Istore", index |-> index]
Invokevirtual(index) == [op |-> "Invokevirtual", index |-> index]
OtherInstruction == [op |-> "Other"]

OperandItem_Integer(v) == [kind |-> "Integer", v |-> v]
Finished == [kind |-> "Finished"]
StackUnderflow == [kind |-> "StackUnderflow"]

\* a frame that starts past the first instruction
Frame_new_at_one(constant_pool, m) ==
    [constant_pool |-> constant_pool, method |-> m, pc |-> 1,
     operand_stack |-> <<>>]

\* Frame::new
Frame_new(constant_pool, m) ==
    [constant_pool |-> constant_pool, method |-> m, pc |-> 0,
     operand_stack |-> <<>>]

\* unwrap_constant!: (cp.class(constant.0), cp.name_and_type(constant.1))
unwrap_constant(cp, constant) ==
    IF constant.t = "Panic" THEN Panic ELSE
    The({ IF class_name.t = "Panic" THEN Panic ELSE
    The({ IF nat.t = "Panic" THEN Panic ELSE Ok(<<class_name.v, nat.v>>)
        : nat \in {name_and_type(cp, constant.v[2])} })
        : class_name \in {class(cp, constant.v[1])} })

\* operand_stack.push(item) / operand_stack.pop()
Vec_push(v, item) == Append(v, item)
Vec_pop(v) ==
    IF v = <<>> THEN [v |-> v, item |-> None]
    ELSE [v |-> SubSeq(v, 1, Len(v) - 1), item |-> Some(v[Len(v)])]

\* what one arm of the match leaves: the frame, and Ok(none) to go on,
\* Err(e) for `?`, Panic for an abort
Go(frame) == [frame |-> frame, r |-> Ok(None)]
Abort(frame) == [frame |-> frame, r |-> Panic]

\* an Ldc arm that pushes a String constant as a reference
Frame_Ldc_reference(frame, index) ==
    The({ IF c.t = "Panic" THEN Abort(frame)
          ELSE IF c.v.kind = "String"
               THEN (IF utf8(frame.constant_pool, c.v.a).t = "Panic"
                     THEN Abort(frame)
                     ELSE Go([frame EXCEPT !.operand_stack =
                                 Vec_push(@, [kind |-> "Reference", v |-> c.v.a])]))
          ELSE IF c.v.kind = "Integer"
               THEN Go([frame EXCEPT !.operand_stack =
                           Vec_push(@, OperandItem_Integer(c.v.v))])
          ELSE Abort(frame)
        : c \in {get(frame.constant_pool, index)} })

\* the Ldc arm
Frame_Ldc(frame, index) ==
    The({ IF c.t = "Panic" THEN Abort(frame)
          ELSE IF c.v.kind = "String"
               THEN (IF utf8(frame.constant_pool, c.v.a).t = "Panic"
                     THEN Abort(frame) ELSE Go(frame))
          ELSE IF c.v.kind = "Integer"
               THEN Go([frame EXCEPT !.operand_stack =
                           Vec_push(@, OperandItem_Integer(c.v.v))])
          ELSE Abort(frame)
        : c \in {get(frame.constant_pool, index)} })

\* a Bipush arm that pushes nothing
Frame_Bipush_drop(frame, value) == Go(frame)

\* the Bipush arm: push(OperandItem::Integer(value as i32))
Frame_Bipush(frame, value) ==
    Go([frame EXCEPT !.operand_stack = Vec_push(@, OperandItem_Integer(value))])

\* an Istore arm that takes an empty stack for a zero
Frame_Istore_lenient(frame, index) ==
    The({ IF ~popped.item.some THEN Go(frame)
          ELSE Go([frame EXCEPT !.operand_stack = popped.v])
        : popped \in {Vec_pop(frame.operand_stack)} })

\* the Istore arm: pop().ok_or(StackUnderflow)?, then the value must be an
\* Integer
Frame_Istore(frame, index) ==
    The({ IF ~popped.item.some THEN [frame |-> frame, r |-> Err(StackUnderflow)]
          ELSE IF popped.item.v.kind = "Integer"
               THEN Go([frame EXCEPT !.operand_stack = popped.v])
          ELSE Abort([frame EXCEPT !.operand_stack = popped.v])
        : popped \in {Vec_pop(frame.operand_stack)} })

\* a Getstatic arm that performs an access and pushes what it read
Frame_Getstatic_push(frame, index) ==
    IF unwrap_constant(frame.constant_pool,
                       field(frame.constant_pool, index)).t = "Panic"
    THEN Abort(frame)
    ELSE Go([frame EXCEPT !.operand_stack = Vec_push(@, OperandItem_Integer(0))])

\* the Getstatic and Invokevirtual arms
Frame_Getstatic(frame, index) ==
    IF unwrap_constant(frame.constant_pool,
                       field(frame.constant_pool, index)).t = "Panic"
    THEN Abort(frame) ELSE Go(frame)
Frame_Invokevirtual(frame, index) ==
    IF unwrap_constant(frame.constant_pool,
                       method(frame.constant_pool, index)).t = "Panic"
    THEN Abort(frame) ELSE Go(frame)

\* a pass of the loop body that moves the pc on by two
Frame_execute_body_skip(frame, inst) ==
    The({ IF arm.r = Ok(None)
          THEN [frame |-> [arm.frame EXCEPT !.pc = @ + 2], r |-> arm.r]
          ELSE arm
        : arm \in {CASE inst.op = "Getstatic" -> Frame_Getstatic(frame, inst.index)
                     [] inst.op = "Ldc" -> Frame_Ldc(frame, inst.index)
                     [] inst.op = "Bipush" -> Frame_Bipush(frame, inst.value)
                     [] inst.op = "Istore" -> Frame_Istore(frame, inst.index)
                     [] inst.op = "Invokevirtual" ->
                           Frame_Invokevirtual(frame, inst.index)
                     [] OTHER -> Go(frame)} })

\* one pass of the loop body of Frame::execute: the match on code[pc],
\* then pc += 1 unless the arm left the function
Frame_execute_body(frame, inst) ==
    The({ IF arm.r = Ok(None)
          THEN [frame |-> [arm.frame EXCEPT !.pc = @ + 1], r |-> arm.r]
          ELSE arm
        : arm \in {CASE inst.op = "Getstatic" -> Frame_Getstatic(frame, inst.index)
                     [] inst.op = "Ldc" -> Frame_Ldc(frame, inst.index)
                     [] inst.op = "Bipush" -> Frame_Bipush(frame, inst.value)
                     [] inst.op = "Istore" -> Frame_Istore(frame, inst.index)
                     [] inst.op = "Invokevirtual" ->
                           Frame_Invokevirtual(frame, inst.index)
                     [] OTHER -> Go(frame)} })

\* a thread that starts without a frame
JavaThread_new_empty(constant_pool, m) == [stack |-> <<>>]

\* JavaThread::new
JavaThread_new(constant_pool, m) ==
    [stack |-> Vec_push(<<>>, Frame_new(constant_pool, m))]

(***************************************************************************)
(* parser.rs: the nom parsers.  A parser maps an input slice to            *)
(* [i |-> the rest, r |-> Ok(value)], or to r = Err(e) with e one of nom's *)
(* three error classes (what the error carries is left out), or to Panic.  *)
(***************************************************************************)
NomError == [kind |-> "Error"]
NomFailure == [kind |-> "Failure"]
NomIncomplete == [kind |-> "Incomplete"]

Parsed(i, v) == [i |-> i, r |-> Ok(v)]
Failed(i, e) == [i |-> i, r |-> Err(e)]
Aborted(i) == [i |-> i, r |-> Panic]
Drop(i, n) == SubSeq(i, n + 1, Len(i))

\* nom::number::complete::{be_u8, be_i8, be_u16, be_u32, be_i32}; a u32 is
\* kept as its two halves, an i32 as the signed number
be_u8(i) == IF Len(i) < 1 THEN Failed(i, NomError) ELSE Parsed(Drop(i, 1), i[1])
be_i8(i) ==
    IF Len(i) < 1 THEN Failed(i, NomError)
    ELSE Parsed(Drop(i, 1), IF i[1] >= 128 THEN i[1] - 256 ELSE i[1])
be_u16(i) ==
    IF Len(i) < 2 THEN Failed(i, NomError)
    ELSE Parsed(Drop(i, 2), i[1] * 256 + i[2])
be_u32(i) ==
    IF Len(i) < 4 THEN Failed(i, NomError)
    ELSE Parsed(Drop(i, 4), [hi |-> i[1] * 256 + i[2], lo |-> i[3] * 256 + i[4]])
be_i32(i) ==
    IF Len(i) < 4 THEN Failed(i, NomError)
    ELSE Parsed(Drop(i, 4),
                (IF i[1] >= 128 THEN i[1] - 256 ELSE i[1]) * 16777216
                + i[2] * 65536 + i[3] * 256 + i[4])
\* be_f32, be_i64, be_f64: the value is kept as the bytes it was read from
be_bytes(i, n) ==
    IF Len(i) < n THEN Failed(i, NomError)
    ELSE Parsed(Drop(i, n), SubSeq(i, 1, n))

\* tuple((be_u16, be_u16))
be_u16_pair(i) ==
    The({ IF a.r.t # "Ok" THEN a ELSE
    The({ IF b.r.t # "Ok" THEN b ELSE Parsed(b.i, <<a.r.v, b.r.v>>)
        : b \in {be_u16(a.i)} })
        : a \in {be_u16(i)} })

\* length_data(f) once f has given the length: the next `length` bytes
length_data(i, length) ==
    IF length > Len(i) THEN Failed(i, NomIncomplete)
    ELSE Parsed(Drop(i, length), SubSeq(i, 1, length))

Float(bytes) == [kind |-> "Float", bytes |-> bytes]
Long(bytes) == [kind |-> "Long", bytes |-> bytes]
Double(bytes) == [kind |-> "Double", bytes |-> bytes]
InterfaceMethod(c, n) == [kind |-> "InterfaceMethod", a |-> c, b |-> n]

\* constant: a tag byte, then the payload of that tag
constant(input) ==
    The({ IF tag.r.t # "Ok" THEN tag ELSE
          CASE tag.r.v = 1 ->
                  The({ IF n.r.t # "Ok" THEN n ELSE
                  The({ IF bytes.r.t # "Ok" THEN bytes
                        ELSE Parsed(bytes.i, Utf8(bytes.r.v))
                      : bytes \in {length_data(n.i, n.r.v)} })
                      : n \in {be_u16(tag.i)} })
            [] tag.r.v = 3 ->
                  The({ IF p.r.t # "Ok" THEN p ELSE Parsed(p.i, Integer(p.r.v))
                      : p \in {be_i32(tag.i)} })
            [] tag.r.v = 4 ->
                  The({ IF p.r.t # "Ok" THEN p ELSE Parsed(p.i, Float(p.r.v))
                      : p \in {be_bytes(tag.i, 4)} })
            [] tag.r.v = 5 ->
                  The({ IF p.r.t # "Ok" THEN p ELSE Parsed(p.i, Long(p.r.v))
                      : p \in {be_bytes(tag.i, 8)} })
            [] tag.r.v = 6 ->
                  The({ IF p.r.t # "Ok" THEN p ELSE Parsed(p.i, Double(p.r.v))
                      : p \in {be_bytes(tag.i, 8)} })
            [] tag.r.v = 7 ->
                  The({ IF p.r.t # "Ok" THEN p ELSE Parsed(p.i, Class(p.r.v))
                      : p \in {be_u16(tag.i)} })
            [] tag.r.v = 8 ->
                  The({ IF p.r.t # "Ok" THEN p ELSE Parsed(p.i, String(p.r.v))
                      : p \in {be_u16(tag.i)} })
            [] tag.r.v = 9 ->
                  The({ IF p.r.t # "Ok" THEN p
                        ELSE Parsed(p.i, Field(p.r.v[1], p.r.v[2]))
                      : p \in {be_u16_pair(tag.i)} })
            [] tag.r.v = 10 ->
                  The({ IF p.r.t # "Ok" THEN p
                        ELSE Parsed(p.i, Method(p.r.v[1], p.r.v[2]))
                      : p \in {be_u16_pair(tag.i)} })
            [] tag.r.v = 11 ->
                  The({ IF p.r.t # "Ok" THEN p
                        ELSE Parsed(p.i, InterfaceMethod(p.r.v[1], p.r.v[2]))
                      : p \in {be_u16_pair(tag.i)} })
            [] tag.r.v = 12 ->
                  The({ IF p.r.t # "Ok" THEN p
                        ELSE Parsed(p.i, NameAndType(p.r.v[1], p.r.v[2]))
                      : p \in {be_u16_pair(tag.i)} })
            [] OTHER -> Failed(tag.i, NomError)
        : tag \in {be_u8(input)} })

\* count(constant, n): n constants one after the other; n = -1 stands for
\* usize::MAX, which no buffer satisfies
RECURSIVE count_constant(_, _, _)
count_constant(i, n, items) ==
    IF n = 0 THEN Parsed(i, items)
    ELSE The({ IF c.r.t # "Ok" THEN c
               ELSE count_constant(c.i, IF n < 0 THEN n ELSE n - 1,
                                   Append(items, c.r.v))
             : c \in {constant(i)} })

\* constant_pool: be_u16, then count(constant, contant_pool_count as usize - 1).
\* For a count of 0 the subtraction aborts in a build with overflow checks
\* and gives usize::MAX in one without; nom's count then aborts on the
\* capacity of its vector, or, in the nom releases that cap the capacity,
\* reads constants until one fails.
constant_pool(input, profile) ==
    The({ IF contant_pool_count.r.t # "Ok" THEN contant_pool_count
          ELSE IF contant_pool_count.r.v = 0
                  /\ (profile.overflow_checks \/ ~profile.capped_capacity)
          THEN Aborted(contant_pool_count.i)
          ELSE The({ IF items.r.t # "Ok" THEN items
                     ELSE Parsed(items.i, [items |-> items.r.v])
                   : items \in {count_constant(contant_pool_count.i,
                                               contant_pool_count.r.v - 1,
                                               <<>>)} })
        : contant_pool_count \in {be_u16(input)} })

(***************************************************************************)
(* instructions::instruction, the decoder of one instruction.  It reads    *)
(* the opcode byte and the operands of that opcode; an opcode it does not  *)
(* know is a terminal error, nom's Err::Failure.  The opcodes are the ones *)
(* of the class-file format for the five instructions the frame executes.  *)
(***************************************************************************)
OpBipush == 16
OpLdc == 18
OpIstore == 54
OpGetstatic == 178
OpInvokevirtual == 182
Opcodes == {OpBipush, OpLdc, OpIstore, OpGetstatic, OpInvokevirtual}

instruction(input) ==
    The({ IF opcode.r.t # "Ok" THEN opcode ELSE
          CASE opcode.r.v = OpBipush ->
                  The({ IF p.r.t # "Ok" THEN p ELSE Parsed(p.i, Bipush(p.r.v))
                      : p \in {be_i8(opcode.i)} })
            [] opcode.r.v = OpLdc ->
                  The({ IF p.r.t # "Ok" THEN p ELSE Parsed(p.i, Ldc(p.r.v))
                      : p \in {be_u8(opcode.i)} })
            [] opcode.r.v = OpIstore ->
                  The({ IF p.r.t # "Ok" THEN p ELSE Parsed(p.i, Istore(p.r.v))
                      : p \in {be_u8(opcode.i)} })
            [] opcode.r.v = OpGetstatic ->
                  The({ IF p.r.t # "Ok" THEN p ELSE Parsed(p.i, Getstatic(p.r.v))
                      : p \in {be_u16(opcode.i)} })
            [] opcode.r.v = OpInvokevirtual ->
                  The({ IF p.r.t # "Ok" THEN p
                        ELSE Parsed(p.i, Invokevirtual(p.r.v))
                      : p \in {be_u16(opcode.i)} })
            [] OTHER -> Failed(opcode.i, NomFailure)
        : opcode \in {be_u8(input)} })

\* many0(instruction) that also ends the list at a terminal error
RECURSIVE many0_instruction_lenient(_, _)
many0_instruction_lenient(i, acc) ==
    The({ IF p.r.t = "Err" THEN Parsed(i, acc)
          ELSE IF p.r.t # "Ok" THEN p
          ELSE IF Len(p.i) = Len(i) THEN Failed(i, NomError)
          ELSE many0_instruction_lenient(p.i, Append(acc, p.r.v))
        : p \in {instruction(i)} })

\* many0(instruction): instructions until one fails; a recoverable error
\* ends the list and many0 succeeds with what it has, any other error is
\* many0's own
RECURSIVE many0_instruction(_, _)
many0_instruction(i, acc) ==
    The({ IF p.r = Err(NomError) THEN Parsed(i, acc)
          ELSE IF p.r.t # "Ok" THEN p
          ELSE IF Len(p.i) = Len(i) THEN Failed(i, NomError)
          ELSE many0_instruction(p.i, Append(acc, p.r.v))
        : p \in {instruction(i)} })

\* length_value(be_u32, many0(instruction)): many0 runs on the `length`
\* bytes after the length; what it leaves of them is dropped
code_length_value(i) ==
    The({ IF length.r.t # "Ok" THEN length
          ELSE IF length.r.v.hi > 0 \/ length.r.v.lo > Len(length.i)
          THEN Failed(length.i, NomIncomplete)
          ELSE The({ IF code.r = Err(NomIncomplete) THEN Failed(i, NomError)
                     ELSE IF code.r.t # "Ok" THEN code
                     ELSE Parsed(Drop(length.i, length.r.v.lo), code.r.v)
                   : code \in {many0_instruction(
                                   SubSeq(length.i, 1, length.r.v.lo), <<>>)} })
        : length \in {be_u32(i)} })

\* the "Code" arm of attribute:
\* tuple((be_u16, be_u16, length_value(be_u32, many0(instruction))))
attribute_Code(attribute_data) ==
    The({ IF maxs.r.t # "Ok" THEN maxs ELSE
    The({ IF code.r.t # "Ok" THEN code
          ELSE Parsed(code.i, Attribute_Code(maxs.r.v[1], maxs.r.v[2], code.r.v))
        : code \in {code_length_value(maxs.i)} })
        : maxs \in {be_u16_pair(attribute_data)} })

\* attribute(constant_pool): the name index, the payload by its declared
\* length, and the payload decoded by the name; the rest is what follows
\* the payload whatever the arm consumed
attribute(constant_pool_, input) ==
    The({ IF name_index.r.t # "Ok" THEN name_index ELSE
    The({ IF length.r.t # "Ok" THEN length
          ELSE IF length.r.v.hi > 0 \/ length.r.v.lo > Len(length.i)
          THEN Failed(length.i, NomIncomplete)
          ELSE IF name_index.r.v = 0
                  \/ name_index.r.v > Len(constant_pool_.items)
          THEN Aborted(length.i)
          ELSE
    The({ IF named.kind # "Utf8"
          THEN Parsed(remaining, Attribute_Unknown(name_index.r.v))
          ELSE
    The({ IF attr.r.t # "Ok" THEN attr ELSE Parsed(remaining, attr.r.v)
        : attr \in {IF named.data = StrConstantValue
                    THEN The({ IF index.r.t # "Ok" THEN index
                               ELSE Parsed(index.i,
                                           Attribute_ConstantValue(index.r.v))
                             : index \in {be_u16(SubSeq(length.i, 1,
                                                        length.r.v.lo))} })
                    ELSE IF named.data = StrCode
                    THEN attribute_Code(SubSeq(length.i, 1, length.r.v.lo))
                    ELSE Parsed(SubSeq(length.i, 1, length.r.v.lo),
                                Attribute_Unknown(name_index.r.v))} })
        : named \in {constant_pool_.items[name_index.r.v]},
          remaining \in {Drop(length.i, length.r.v.lo)} })
        : length \in {be_u32(name_index.i)} })
        : name_index \in {be_u16(input)} })

\* count(f, n) inside length_count(be_u16, f), for f = be_u16, attribute,
\* field and method: n items one after the other, the first error is the
\* result
RECURSIVE count_be_u16(_, _, _)
count_be_u16(i, n, acc) ==
    IF n = 0 THEN Parsed(i, acc)
    ELSE The({ IF p.r.t # "Ok" THEN p
               ELSE count_be_u16(p.i, n - 1, Append(acc, p.r.v))
             : p \in {be_u16(i)} })

RECURSIVE count_attribute(_, _, _, _)
count_attribute(pool, i, n, acc) ==
    IF n = 0 THEN Parsed(i, acc)
    ELSE The({ IF p.r.t # "Ok" THEN p
               ELSE count_attribute(pool, p.i, n - 1, Append(acc, p.r.v))
             : p \in {attribute(pool, i)} })

length_count_be_u16(i) ==
    The({ IF n.r.t # "Ok" THEN n ELSE count_be_u16(n.i, n.r.v, <<>>)
        : n \in {be_u16(i)} })

length_count_attribute(pool, i) ==
    The({ IF n.r.t # "Ok" THEN n ELSE count_attribute(pool, n.i, n.r.v, <<>>)
        : n \in {be_u16(i)} })

\* bitflags' from_bits_truncate: the bits that are flags of the type
RECURSIVE BitAnd(_, _)
BitAnd(a, b) ==
    IF a = 0 \/ b = 0 THEN 0
    ELSE (a % 2) * (b % 2) + 2 * BitAnd(a \div 2, b \div 2)

ClassAccessFlags_all == 63025
FieldAccessFields_all == 20703
MethodAccessFlags_all == 7679
from_bits_truncate(all, bits) == BitAnd(bits, all)

\* field(pool) and method(pool), which differ in the flags type `all` is the
\* mask of: the flags of the type, two indices and the counted attributes
member_info(all, pool, input) ==
    The({ IF bits.r.t # "Ok" THEN bits ELSE
    The({ IF indices.r.t # "Ok" THEN indices ELSE
    The({ IF attributes.r.t # "Ok" THEN attributes
          ELSE Parsed(attributes.i,
                      [access_flags |-> from_bits_truncate(all, bits.r.v),
                       name_index |-> indices.r.v[1],
                       descriptor_index |-> indices.r.v[2],
                       attributes |-> attributes.r.v])
        : attributes \in {length_count_attribute(pool, indices.i)} })
        : indices \in {be_u16_pair(bits.i)} })
        : bits \in {be_u16(input)} })

RECURSIVE count_member(_, _, _, _, _)
count_member(all, pool, i, n, acc) ==
    IF n = 0 THEN Parsed(i, acc)
    ELSE The({ IF p.r.t # "Ok" THEN p
               ELSE count_member(all, pool, p.i, n - 1, Append(acc, p.r.v))
             : p \in {member_info(all, pool, i)} })

length_count_member(all, pool, i) ==
    The({ IF n.r.t # "Ok" THEN n ELSE count_member(all, pool, n.i, n.r.v, <<>>)
        : n \in {be_u16(i)} })

\* tag([0xCA, 0xFE, 0xBA, 0xBE])
tag_magic(i) ==
    IF Len(i) >= 4 /\ SubSeq(i, 1, 4) = <<202, 254, 186, 190>>
    THEN Parsed(Drop(i, 4), SubSeq(i, 1, 4))
    ELSE Failed(i, NomError)

\* version: minor, then major
version(i) ==
    The({ IF p.r.t # "Ok" THEN p
          ELSE Parsed(p.i, [major |-> p.r.v[2], minor |-> p.r.v[1]])
        : p \in {be_u16_pair(i)} })

\* the tuple of parse_class and the ClassFile it is mapped to
parse_class_tail(v, pool, input) ==
    The({ IF bits.r.t # "Ok" THEN bits ELSE
    The({ IF classes.r.t # "Ok" THEN classes ELSE
    The({ IF interfaces.r.t # "Ok" THEN interfaces ELSE
    The({ IF fields.r.t # "Ok" THEN fields ELSE
    The({ IF methods.r.t # "Ok" THEN methods ELSE
    The({ IF attributes.r.t # "Ok" THEN attributes
          ELSE Parsed(attributes.i,
                      [version |-> v, constant_pool |-> pool,
                       access_flags |->
                           from_bits_truncate(ClassAccessFlags_all, bits.r.v),
                       this_class |-> classes.r.v[1],
                       super_class |-> classes.r.v[2],
                       interfaces |-> interfaces.r.v,
                       fields |-> fields.r.v,
                       methods |-> methods.r.v,
                       attributes |-> attributes.r.v])
        : attributes \in {length_count_attribute(pool, methods.i)} })
        : methods \in {length_count_member(MethodAccessFlags_all, pool, fields.i)} })
        : fields \in {length_count_member(FieldAccessFields_all, pool,
                                          interfaces.i)} })
        : interfaces \in {length_count_be_u16(classes.i)} })
        : classes \in {be_u16_pair(bits.i)} })
        : bits \in {be_u16(input)} })

\* parse_class: the magic, the version, the pool, then the rest
parse_class(input_, profile) ==
    The({ IF magic.r.t # "Ok" THEN magic ELSE
    The({ IF v.r.t # "Ok" THEN v ELSE
    The({ IF pool.r.t # "Ok" THEN pool
          ELSE parse_class_tail(v.r.v, pool.r.v, pool.i)
        : pool \in {constant_pool(v.i, profile)} })
        : v \in {version(magic.i)} })
        : magic \in {tag_magic(input_)} })

(***************************************************************************)
(* The pools and method lists the lookups are applied to.                  *)
(***************************************************************************)
MaxPool == 3        \* longest constant pool
MaxMethods == 3     \* longest method list

StrA == <<97>>
StrB == <<98>>
PoolConstants ==
    {Utf8(StrA), Utf8(StrB), Integer(7), Class(1), NameAndType(1, 2),
     Field(1, 2), Method(3, 2)}
MethodInfo(flags, name, desc) ==
    [access_flags |-> flags, name_index |-> name, descriptor_index |-> desc,
     attributes |-> <<>>]
MethodInfos ==
    {MethodInfo(1, 1, 2), MethodInfo(9, 1, 2), MethodInfo(1, 2, 1),
     MethodInfo(1, 1, 1), MethodInfo(1, 3, 2)}
ClassModels ==
    [constant_pool : [items : SeqsUpTo(PoolConstants, MaxPool)],
     methods : {<<>>}]
    \cup [constant_pool : [items : {<<Utf8(StrA), Utf8(StrB)>>,
                                    <<Utf8(StrA), Utf8(StrB), Integer(7)>>,
                                    <<Utf8(StrA), Utf8(StrA)>>}],
          methods : SeqsUpTo(MethodInfos, MaxMethods)]
Indices == 0..(MaxPool + 1)
Names == {StrA, StrB}

(***************************************************************************)
(* State.  Loader: the chosen buffer (`input` describes it), the local     *)
(* Stream of ClassFile::parse when it returned, and its result.  Lookups:  *)
(* a parser.rs ClassFile, the last call made on it and what it returned.   *)
(***************************************************************************)
VARIABLES input, data, stream, result, cf, call, ret, build, thread, current

vars == <<input, data, stream, result, cf, call, ret, build, thread, current>>
loader_vars == <<input, data, stream, result>>
lookup_vars == <<cf, call, ret>>
runtime_vars == <<build, thread, current>>

NotRun == [t |-> "NotRun"]
NoCall == [op |-> "none"]
NoInput == [class |-> <<>>, wf |-> FALSE, len |-> 0, cut |-> 0]
NoClass == [constant_pool |-> [items |-> <<>>], methods |-> <<>>]
\* the build profile plays no part
AnyBuild == [overflow_checks |-> "any"]
NoThread == [at |-> "none", stack |-> <<>>]
NoFrame == [at |-> "none"]
NoRuntime == build = AnyBuild /\ thread = NoThread /\ current = NoFrame

(***************************************************************************)
(* Spec: a buffer is chosen and ClassFile::parse (lib.rs) runs on it once. *)
(***************************************************************************)
Init ==
    /\ \E c \in Classes :
          \E bytes \in {EncClass(c.class)} :
             \E n \in 0..Len(bytes) :
                /\ input = [class |-> c.class, wf |-> c.wf,
                            len |-> Len(bytes), cut |-> n]
                /\ data = SubSeq(bytes, 1, n)
    /\ stream = Stream_new(<<>>)
    /\ result = NotRun
    /\ cf = NoClass /\ call = NoCall /\ ret = NotRun
    /\ NoRuntime

\* ClassFile::parse(data)
Parse ==
    /\ result = NotRun
    /\ \E p \in {ClassFile_parse(data)} :
          /\ stream' = p.s
          /\ result' = p.r
    /\ UNCHANGED <<input, data>>
    /\ UNCHANGED lookup_vars /\ UNCHANGED runtime_vars

\* method.maxs() and method.code() on a method of the class that was loaded
Call_Method_maxs(index) ==
    /\ result.t = "Ok" /\ call = NoCall
    /\ index \in 1..Len(result.v.methods)
    /\ call' = [op |-> "Method::maxs", index |-> index]
    /\ ret' = Method_maxs(result.v.methods[index])
    /\ UNCHANGED cf /\ UNCHANGED loader_vars /\ UNCHANGED runtime_vars

Call_Method_code(index) ==
    /\ result.t = "Ok" /\ call = NoCall
    /\ index \in 1..Len(result.v.methods)
    /\ call' = [op |-> "Method::code", index |-> index]
    /\ ret' = Method_code(result.v.methods[index])
    /\ UNCHANGED cf /\ UNCHANGED loader_vars /\ UNCHANGED runtime_vars

Next ==
    \/ Parse
    \/ \E index \in 1..MaxMembers : Call_Method_maxs(index)
    \/ \E index \in 1..MaxMembers : Call_Method_code(index)

Spec == Init /\ [][Next]_vars

(***************************************************************************)
(* SpecLookup: a parser.rs ClassFile is chosen and lookups are made on it. *)
(***************************************************************************)
InitLookup ==
    /\ cf \in ClassModels
    /\ call = NoCall /\ ret = NotRun
    /\ input = NoInput /\ data = <<>>
    /\ stream = Stream_new(<<>>) /\ result = NotRun
    /\ NoRuntime

\* a lookup that aborted took the thread with it: nothing is called after
Running == ret.t # "Panic"

Call_get(index) ==
    /\ Running
    /\ call' = [op |-> "get", index |-> index]
    /\ ret' = get(cf.constant_pool, index)
    /\ UNCHANGED cf /\ UNCHANGED loader_vars /\ UNCHANGED runtime_vars

Call_utf8(index) ==
    /\ Running
    /\ call' = [op |-> "utf8", index |-> index]
    /\ ret' = utf8(cf.constant_pool, index)
    /\ UNCHANGED cf /\ UNCHANGED loader_vars /\ UNCHANGED runtime_vars

Call_integer(index) ==
    /\ Running
    /\ call' = [op |-> "integer", index |-> index]
    /\ ret' = integer(cf.constant_pool, index)
    /\ UNCHANGED cf /\ UNCHANGED loader_vars /\ UNCHANGED runtime_vars

Call_name_and_type(index) ==
    /\ Running
    /\ call' = [op |-> "name_and_type", index |-> index]
    /\ ret' = name_and_type(cf.constant_pool, index)
    /\ UNCHANGED cf /\ UNCHANGED loader_vars /\ UNCHANGED runtime_vars

Call_class(index) ==
    /\ Running
    /\ call' = [op |-> "class", index |-> index]
    /\ ret' = class(cf.constant_pool, index)
    /\ UNCHANGED cf /\ UNCHANGED loader_vars /\ UNCHANGED runtime_vars

Call_field(index) ==
    /\ Running
    /\ call' = [op |-> "field", index |-> index]
    /\ ret' = field(cf.constant_pool, index)
    /\ UNCHANGED cf /\ UNCHANGED loader_vars /\ UNCHANGED runtime_vars

Call_method(index) ==
    /\ Running
    /\ call' = [op |-> "method", index |-> index]
    /\ ret' = method(cf.constant_pool, index)
    /\ UNCHANGED cf /\ UNCHANGED loader_vars /\ UNCHANGED runtime_vars

Call_get_method(name, descriptor) ==
    /\ Running
    /\ call' = [op |-> "get_method", name |-> name, descriptor |-> descriptor]
    /\ ret' = get_method(cf, name, descriptor)
    /\ UNCHANGED cf /\ UNCHANGED loader_vars /\ UNCHANGED runtime_vars

NextLookup ==
    \/ \E index \in Indices : Call_get(index)
    \/ \E index \in Indices : Call_utf8(index)
    \/ \E index \in Indices : Call_integer(index)
    \/ \E index \in Indices : Call_name_and_type(index)
    \/ \E index \in Indices : Call_class(index)
    \/ \E index \in Indices : Call_field(index)
    \/ \E index \in Indices : Call_method(index)
    \/ \E name \in Names, descriptor \in Names : Call_get_method(name, descriptor)

SpecLookup == InitLookup /\ [][NextLookup]_vars

(***************************************************************************)
(* SpecCursor: a Stream over a buffer and the calls a user of the public   *)
(* Stream makes on it, in a build with or without overflow checks.  `call` *)
(* keeps the offset the call started at and the number of calls so far.    *)
(***************************************************************************)
MaxBuf == 3         \* longest buffer
MaxCalls == 3       \* calls made on one Stream

Buffers == {[i \in 1..n |-> 10 * i] : n \in 0..MaxBuf}
Lens == {0, 1, 2, UsizeMax - 1, UsizeMax}
Sizes == {1, 2, 4}

InitCursor ==
    /\ data \in Buffers
    /\ stream = Stream_new(data)
    /\ build \in [overflow_checks : BOOLEAN]
    /\ call = [op |-> "new", len |-> 0, at |-> 0, n |-> 0]
    /\ ret = NotRun
    /\ input = NoInput /\ result = NotRun /\ cf = NoClass
    /\ thread = NoThread /\ current = NoFrame

CursorIdle == UNCHANGED <<input, data, result, cf, build, thread, current>>

Cursor_read_bytes(len) ==
    /\ Running /\ call.n < MaxCalls
    /\ \E p \in {Stream_read_bytes(stream, len, build.overflow_checks)} :
          /\ stream' = p.s
          /\ ret' = p.r
    /\ call' = [op |-> "read_bytes", len |-> len, at |-> stream.offset,
                n |-> call.n + 1]
    /\ CursorIdle

Cursor_advance(len) ==
    /\ Running /\ call.n < MaxCalls
    /\ \E p \in {Stream_advance(stream, len, build.overflow_checks)} :
          /\ stream' = p.s
          /\ ret' = p.r
    /\ call' = [op |-> "advance", len |-> len, at |-> stream.offset,
                n |-> call.n + 1]
    /\ CursorIdle

Cursor_read(size) ==
    /\ Running /\ call.n < MaxCalls
    /\ \E p \in {Stream_read(stream, size, build.overflow_checks)} :
          /\ stream' = p.s
          /\ ret' = p.r
    /\ call' = [op |-> "read", len |-> size, at |-> stream.offset,
                n |-> call.n + 1]
    /\ CursorIdle

NextCursor ==
    \/ \E len \in Lens : Cursor_read_bytes(len)
    \/ \E len \in Lens : Cursor_advance(len)
    \/ \E size \in Sizes : Cursor_read(size)

SpecCursor == InitCursor /\ [][NextCursor]_vars

(***************************************************************************)
(* SpecThread: main.rs hands a pool and a method to JavaThread::new and    *)
(* calls run.  `current` is the frame run popped, with `code`, the local   *)
(* of execute, and the ghost `executed`, the loop bodies entered so far.   *)
(* `thread.at` is where run stands: "run" at the test of its loop,         *)
(* "execute" inside current.execute() at the test of that loop, "match"    *)
(* with the value execute returned in `ret`, "returned" after the loop,    *)
(* "panicked" after an abort.  SpecThreadFair adds that a thread that can  *)
(* take a step takes one.                                                  *)
(***************************************************************************)
MaxCode == 3        \* longest instruction list

ThreadPools ==
    {<<Integer(7), Field(4, 5), Method(4, 5), Class(6), NameAndType(6, 6),
       Utf8(StrA), String(6)>>,
     <<Utf8(StrA)>>}
Instructions ==
    {Bipush(5), Bipush(10), Istore(0), Ldc(1), Ldc(7), Getstatic(2),
     Invokevirtual(3), OtherInstruction}
ThreadMethods ==
    {[MethodInfo(9, 1, 1) EXCEPT !.attributes = <<Attribute_Code(2, 1, code)>>] :
        code \in SeqsUpTo(Instructions, MaxCode)}
    \cup {MethodInfo(9, 1, 1),
          [MethodInfo(9, 1, 1) EXCEPT !.attributes = <<Attribute_Unknown(1)>>],
          [MethodInfo(9, 1, 1) EXCEPT !.attributes =
              <<Attribute_Unknown(1), Attribute_Code(1, 1, <<Bipush(5)>>),
                Attribute_Code(0, 0, <<>>)>>]}

InitThread ==
    /\ \E items \in ThreadPools, m \in ThreadMethods :
          /\ cf = [constant_pool |-> [items |-> items], methods |-> <<m>>]
          /\ thread = [at |-> "run",
                       stack |-> JavaThread_new(cf.constant_pool, m).stack]
    /\ current = NoFrame
    /\ call = NoCall /\ ret = NotRun
    /\ build = AnyBuild
    /\ input = NoInput /\ data = <<>>
    /\ stream = Stream_new(<<>>) /\ result = NotRun

ThreadIdle == UNCHANGED <<input, data, stream, result, cf, call, build>>

\* run: the loop test holds; `current = stack.pop().unwrap()`, and execute
\* starts with `let code = self.method.code()`
Run_pop ==
    /\ thread.at = "run" /\ thread.stack # <<>>
    /\ \E popped \in {Vec_pop(thread.stack)} :
       \E code \in {MethodInfo_code(popped.item.v.method)} :
          IF code.t = "Panic"
          THEN /\ thread' = [at |-> "panicked", stack |-> popped.v]
               /\ current' = [frame |-> popped.item.v, code |-> <<>>,
                              executed |-> 0]
               /\ ret' = Panic
          ELSE /\ thread' = [at |-> "execute", stack |-> popped.v]
               /\ current' = [frame |-> popped.item.v, code |-> code.v,
                              executed |-> 0]
               /\ ret' = ret
    /\ ThreadIdle

\* execute: `while self.pc < code.len()` holds; one pass of the body
Execute_step ==
    /\ thread.at = "execute" /\ current.frame.pc < Len(current.code)
    /\ \E body \in {Frame_execute_body(current.frame,
                                       current.code[current.frame.pc + 1])} :
          /\ current' = [current EXCEPT !.frame = body.frame,
                                        !.executed = @ + 1]
          /\ IF body.r = Ok(None) THEN UNCHANGED <<thread, ret>>
             ELSE IF body.r.t = "Panic"
             THEN thread' = [thread EXCEPT !.at = "panicked"] /\ ret' = Panic
             ELSE thread' = [thread EXCEPT !.at = "match"] /\ ret' = body.r
    /\ ThreadIdle

\* execute: the loop test fails; Ok(FrameResult::Finished)
Execute_finish ==
    /\ thread.at = "execute" /\ current.frame.pc >= Len(current.code)
    /\ thread' = [thread EXCEPT !.at = "match"]
    /\ ret' = Ok(Finished)
    /\ UNCHANGED current
    /\ ThreadIdle

\* an arm that puts the frame back on the call stack
Run_match_again ==
    /\ thread.at = "match" /\ ret = Ok(Finished)
    /\ thread' = [at |-> "run", stack |-> Vec_push(thread.stack, current.frame)]
    /\ UNCHANGED <<current, ret>>
    /\ ThreadIdle

\* run: the arm `FrameResult::Finished => {}`.  The match has no arm for
\* an error; execute never returns NextFrame.
Run_match ==
    /\ thread.at = "match" /\ ret = Ok(Finished)
    /\ thread' = [thread EXCEPT !.at = "run"]
    /\ UNCHANGED <<current, ret>>
    /\ ThreadIdle

\* run: the loop test fails
Run_return ==
    /\ thread.at = "run" /\ thread.stack = <<>>
    /\ thread' = [thread EXCEPT !.at = "returned"]
    /\ UNCHANGED <<current, ret>>
    /\ ThreadIdle

NextThread ==
    \/ Run_pop
    \/ Execute_step
    \/ Execute_finish
    \/ Run_match
    \/ Run_return

SpecThread == InitThread /\ [][NextThread]_vars
SpecThreadFair == SpecThread /\ WF_vars(NextThread)

(***************************************************************************)
(* SpecParser: a buffer is chosen and parse_class (parser.rs) runs on it   *)
(* once, as main.rs does with the bytes of the file.  The buffers are      *)
(* class files whose Code attributes hold the instructions of every        *)
(* opcode, opcodes the decoder does not know and cut operands; class       *)
(* files with every kind of flag bits and class indices; pools with the    *)
(* constants of every tag, declared with and without a second slot for     *)
(* the wide ones; the malformed files of Spec; and every prefix of two     *)
(* files.                                                                  *)
(***************************************************************************)
MaxInsts == 2       \* most encoded instructions of a Code attribute

KnownInsts ==
    {<<OpBipush, 5>>, <<OpLdc, 1>>, <<OpIstore, 0>>, <<OpGetstatic, 0, 5>>,
     <<OpInvokevirtual, 0, 6>>}
UnknownOpcodes == {0, 177, 255}
UnknownInsts == {<<op>> : op \in UnknownOpcodes}
CutInsts == {<<OpBipush>>, <<OpGetstatic, 0>>}

\* the encoded instructions of a Code attribute, one after the other; one
\* with a cut operand is the last
InstLists ==
    SeqsUpTo(KnownInsts \cup UnknownInsts, MaxInsts)
    \cup {<<k, c>> : k \in KnownInsts, c \in CutInsts}
    \cup {<<c>> : c \in CutInsts}

CodeOf(insts) ==
    [k |-> "code", name_index |-> 1, delta |-> 0, max_stack |-> 2,
     max_locals |-> 1, code |-> Concat(insts), exceptions |-> <<>>,
     attributes |-> <<>>, insts |-> insts]

FlagBits == {0, 2, 33, 1057, 63025, 65535}
ClassIndices == {0, 2, 3, 300}

\* 3 Integer, 4 Float, 5 Long, 6 Double, 11 InterfaceMethod
Wide == {Raw(5, <<0, 0, 0, 0, 0, 0, 0, 7>>), Raw(6, <<64, 0, 0, 0, 0, 0, 0, 0>>)}
Narrow == {Raw(3, <<255, 255, 255, 249>>), Raw(4, <<63, 128, 0, 0>>),
           Raw(11, <<0, 3, 0, 4>>), Utf8(StrX)}
WidePools ==
    {<<w>> : w \in Wide}
    \cup {<<w, n>> : w \in Wide, n \in Narrow}
    \cup {<<n, w>> : w \in Wide, n \in Narrow}
    \cup {<<w, Utf8(StrCode), x>> : w \in Wide, x \in Wide}
    \cup {<<n>> : n \in Narrow}

RECURSIVE CountKind(_, _)
CountKind(items, kinds) ==
    IF items = <<>> THEN 0
    ELSE (IF Head(items).kind \in kinds THEN 1 ELSE 0)
         + CountKind(Tail(items), kinds)

WideTags(pool) ==
    Cardinality({i \in 1..Len(pool) : pool[i].kind = "Raw" /\ pool[i].tag \in {5, 6}})

ParserClasses ==
    {ClassDesc(Pool1, <<>>, <<>>, <<Member(9, 2, 2, <<CodeOf(l)>>)>>, <<>>) :
        l \in InstLists}
    \cup {ClassDesc(Pool1, <<>>, <<>>, <<>>, <<AttrUnhandled(1), CodeOf(l)>>) :
             l \in {m \in InstLists : Len(m) <= 1}}
    \cup {[ClassDesc(Pool1, <<>>, <<>>, <<>>, <<>>) EXCEPT
              !.access_flags = f, !.this_class = t, !.super_class = s] :
             f \in FlagBits, t \in ClassIndices, s \in ClassIndices}
    \cup {ClassDesc(Pool1, <<3>>, <<Member(f, 2, 2, <<AttrConstantValue>>)>>,
                    <<Member(f, 2, 2, <<>>)>>, <<AttrSourceFile>>) :
             f \in FlagBits}
    \cup {[ClassDesc(pool, <<>>, <<>>, <<>>, <<>>) EXCEPT
              !.count = Len(pool) + 1 + slots] :
             pool \in WidePools, slots \in {0, 1, 2}}
    \cup ClassesBad
    \cup {Minimal}

\* the files every prefix of which is parsed, too
ParserCut == {Minimal, ClassDesc(Pool1, <<>>, <<>>, <<>>, <<CodeOf(<<>>)>>)}

InitParser ==
    /\ \E desc \in ParserClasses \cup ParserCut :
          \E bytes \in {EncClass(desc)} :
             \E n \in (IF desc \in ParserCut THEN 0..Len(bytes) ELSE {Len(bytes)}) :
                /\ input = [class |-> desc, wf |-> FALSE,
                            len |-> Len(bytes), cut |-> n]
                /\ data = SubSeq(bytes, 1, n)
    /\ build \in [overflow_checks : BOOLEAN, capped_capacity : BOOLEAN]
    /\ stream = Stream_new(<<>>)
    /\ result = NotRun
    /\ cf = NoClass /\ call = NoCall /\ ret = NotRun
    /\ thread = NoThread /\ current = NoFrame

\* parse_class(buf.as_slice())
ParseClass ==
    /\ result = NotRun
    /\ \E p \in {parse_class(data, build)} :
          result' = p.r
    /\ UNCHANGED <<input, data, stream, build, thread, current>>
    /\ UNCHANGED lookup_vars

NextParser == ParseClass

SpecParser == InitParser /\ [][NextParser]_vars

(***************************************************************************)
(* Properties of the loader.                                               *)
(***************************************************************************)
Done == result # NotRun
\* the buffer is a proper prefix of a well-formed class file
Truncated == input.wf /\ input.cut < input.len
\* the buffer is a whole well-formed class file
Complete == input.wf /\ input.cut = input.len
HasMagic == Len(data) >= 4 /\ SubSeq(data, 1, 4) = CafeBabe

\* C1: loading any proper prefix of a well-formed class file returns the
\* MissingField error (no abort, no Ok).  The loader does not behave so: a
\* prefix shorter than the magic gives InvalidMagic, a cut inside a pool
\* entry's payload gives UnhandledConstant, and a cut inside the payload of
\* a trailing unrecognized attribute gives Ok.
C1_TruncatedIsMissingField ==
    (Done /\ Truncated) => result = Err(MissingField)

\* C2: a buffer that does not start with CA FE BA BE is rejected with
\* InvalidMagic before anything after the magic is read (the cursor is
\* still within the first four bytes), and a buffer that starts with
\* CA FE BA BE is never rejected with InvalidMagic.
C2_MagicFirst ==
    Done =>
        /\ ~HasMagic =>
              /\ result = Err(InvalidMagic)
              /\ stream.offset = (IF Len(data) >= 4 THEN 4 ELSE 0)
        /\ HasMagic => result # Err(InvalidMagic)

C2_Witness ==
    /\ Done /\ ~HasMagic /\ Len(data) > 10
    /\ result = Err(InvalidMagic)

\* the minimal class file of the scenario, byte for byte
MinimalBytes ==
    <<202, 254, 186, 190, 0, 0, 0, 52, 0, 1, 0, 33,
      0, 0, 0, 0, 0, 0, 0, 0, 0, 0, 0, 0>>

\* C3: loading the minimal class file succeeds with major 52, minor 0, an
\* empty pool, this_class = super_class = 0 and four empty lists.
C3_MinimalLoads ==
    (Done /\ data = MinimalBytes) =>
        /\ result.t = "Ok"
        /\ result.v.major_version = 52
        /\ result.v.minor_version = 0
        /\ result.v.constant_pool.items = <<>>
        /\ result.v.access_flags = 33
        /\ result.v.this_class = 0
        /\ result.v.super_class = 0
        /\ result.v.interfaces = <<>>
        /\ result.v.fields = <<>>
        /\ result.v.methods = <<>>
        /\ result.v.attributes = <<>>

C3_Witness == Done /\ data = MinimalBytes /\ result.t = "Ok"

\* every attribute of a list, at every nesting depth
RECURSIVE AllAttrs(_)
AllAttrs(as) ==
    UNION {{as[i]} \cup (IF as[i].kind = "Code"
                         THEN AllAttrs(as[i].attributes) ELSE {})
           : i \in 1..Len(as)}

\* every attribute of a loaded ClassFile
ClassAttrs(parsed) ==
    AllAttrs(parsed.attributes)
    \cup UNION {AllAttrs(parsed.fields[i].attributes) : i \in 1..Len(parsed.fields)}
    \cup UNION {AllAttrs(parsed.methods[i].attributes) : i \in 1..Len(parsed.methods)}

\* the big-endian u16 at offset pos of the buffer
U16At(pos) == data[pos + 1] * 256 + data[pos + 2]

RecognizedTags == {1, 7, 8, 9, 10, 12}
\* the pool entries of the description that carry an unrecognized tag
RawEntries == {i \in 1..Len(input.class.pool) : input.class.pool[i].kind = "Raw"}
\* the offset of the tag byte of pool entry i
RECURSIVE TagPos(_)
TagPos(i) ==
    IF i = 1 THEN 10 ELSE TagPos(i - 1) + Len(EncConstant(input.class.pool[i - 1]))

\* C4: a pool entry with a tag outside {1, 7, 8, 9, 10, 12} ends the load
\* with UnhandledConstant(tag), the cursor one past the tag byte; and
\* UnhandledConstant is returned for no other reason.  The second half fails
\* on the code: a recognized tag whose payload is cut short is reported as
\* UnhandledConstant(tag) too.
C4_UnhandledConstantOnlyForUnknownTag ==
    Done =>
        /\ \A i \in RawEntries :
              (/\ input.class.count > i
               /\ \A j \in 1..(i - 1) : j \notin RawEntries
               /\ input.cut > TagPos(i)
               /\ HasMagic)
              => /\ result = Err(UnhandledConstant(input.class.pool[i].tag))
                 /\ stream.offset = TagPos(i) + 1
        /\ (result.t = "Err" /\ result.e.kind = "UnhandledConstant")
              => result.e.tag \notin RecognizedTags

\* C5: every unrecognized attribute of a loaded class file was skipped by
\* exactly its declared length: the cursor after it is 6 + length past its
\* name-index field, whatever the payload holds and even when that is past
\* the end of the buffer; and a well-formed file loads with one Unhandled
\* marker, carrying the resolved name, per unrecognized attribute.
C5_UnhandledSkipsDeclaredLength ==
    Done =>
        /\ result.t = "Ok" =>
              \A a \in ClassAttrs(result.v) :
                 a.kind = "Unhandled" => a.end = a.at + 6 + a.length
        /\ Complete =>
              /\ result.t = "Ok"
              /\ Len(result.v.attributes) = Len(input.class.attributes)
              /\ \A i \in 1..Len(input.class.attributes) :
                    input.class.attributes[i].name_index = 2 =>
                       /\ result.v.attributes[i].kind = "Unhandled"
                       /\ result.v.attributes[i].name = StrX
                       /\ result.v.attributes[i].length
                             = input.class.attributes[i].length

\* an unrecognized attribute with a payload was skipped and another
\* attribute was decoded after it
C5_Witness ==
    /\ Done /\ result.t = "Ok" /\ Len(result.v.attributes) = 2
    /\ result.v.attributes[1].kind = "Unhandled"
    /\ result.v.attributes[1].length = 2
    /\ result.v.attributes[2].at = result.v.attributes[1].at + 8

\* C6: after a Code attribute is decoded the cursor is payload start +
\* declared length.  The decoder never looks at the declared length of a
\* Code attribute, so this fails whenever the length field disagrees with
\* the structure that follows.
C6_CodeConsumesDeclaredLength ==
    (Done /\ result.t = "Ok") =>
        \A a \in ClassAttrs(result.v) :
           a.kind = "Code" => a.end = a.at + 6 + a.length

\* the entry count field of the buffer (offset 8)
DeclaredCount == U16At(8)

\* C7: a loaded pool whose count field is N holds exactly N - 1 entries, in
\* stream order; index i in 1..N-1 names the i-th entry decoded, and index
\* 0 and index N name no entry (a lookup with them aborts).  A well-formed
\* file loads, and its pool is the described one entry for entry.
C7_PoolIsOneIndexed ==
    Done =>
        /\ result.t = "Ok" =>
              /\ Len(result.v.constant_pool.items) = DeclaredCount - 1
              /\ get(result.v.constant_pool, 0) = Panic
              /\ get(result.v.constant_pool, DeclaredCount) = Panic
              /\ resolve_name(result.v.constant_pool, 0) = Panic
              /\ \A i \in 1..(DeclaredCount - 1) :
                    get(result.v.constant_pool, i).t = "Ok"
        /\ Complete =>
              /\ result.t = "Ok"
              /\ DeclaredCount = Len(input.class.pool) + 1
              /\ \A i \in 1..Len(input.class.pool) :
                    /\ get(result.v.constant_pool, i) = Ok(input.class.pool[i])
                    /\ input.class.pool[i].kind = "Utf8" =>
                          resolve_name(result.v.constant_pool, i)
                             = Ok(Some(input.class.pool[i].data))

\* a whole file with the nine-entry pool was loaded
C7_Witness ==
    /\ Done /\ Complete /\ result.t = "Ok"
    /\ DeclaredCount = 10
    /\ Len(result.v.constant_pool.items) = 9

\* the members of a loaded list sit in the buffer in list order
InStreamOrder(members) ==
    \A i \in 1..(Len(members) - 1) : members[i].at < members[i + 1].at

\* a loaded member equals its description, attributes by count
SameMember(m, d) ==
    /\ m.access_flags = d.access_flags
    /\ m.name_index = d.name_index
    /\ m.descriptor_index = d.descriptor_index
    /\ Len(m.attributes) = Len(d.attributes)

\* C9: a loaded class has exactly as many interfaces, fields, methods and
\* class attributes as the four count fields of the buffer declare, each
\* member has as many attributes as its own count field declares, and the
\* lists are in stream order: a well-formed file loads with the described
\* interfaces, fields and methods, position by position.
C9_ListsMatchDeclaredCounts ==
    Done =>
        /\ result.t = "Ok" =>
              /\ Len(result.v.interfaces) = U16At(result.v.interfaces_at)
              /\ Len(result.v.fields) = U16At(result.v.fields_at)
              /\ Len(result.v.methods) = U16At(result.v.methods_at)
              /\ Len(result.v.attributes) = U16At(result.v.attributes_at)
              /\ \A i \in 1..Len(result.v.interfaces) :
                    result.v.interfaces[i]
                       = U16At(result.v.interfaces_at + 2 * i)
              /\ \A i \in 1..Len(result.v.fields) :
                    Len(result.v.fields[i].attributes)
                       = U16At(result.v.fields[i].at + 6)
              /\ \A i \in 1..Len(result.v.methods) :
                    Len(result.v.methods[i].attributes)
                       = U16At(result.v.methods[i].at + 6)
              /\ InStreamOrder(result.v.fields)
              /\ InStreamOrder(result.v.methods)
        /\ Complete =>
              /\ result.t = "Ok"
              /\ result.v.interfaces = input.class.interfaces
              /\ Len(result.v.fields) = Len(input.class.fields)
              /\ Len(result.v.methods) = Len(input.class.methods)
              /\ Len(result.v.attributes) = Len(input.class.attributes)
              /\ \A i \in 1..Len(input.class.fields) :
                    SameMember(result.v.fields[i], input.class.fields[i])
              /\ \A i \in 1..Len(input.class.methods) :
                    SameMember(result.v.methods[i], input.class.methods[i])

\* a whole file with two different methods was loaded
C9_Witness ==
    /\ Done /\ Complete /\ result.t = "Ok"
    /\ Len(result.v.methods) = 2
    /\ result.v.methods[1].access_flags # result.v.methods[2].access_flags
    /\ Len(result.v.methods[1].attributes) # Len(result.v.methods[2].attributes)

\* the whole file was read up to its class-level attributes, the first of
\* which has a name index that is not the index of a Utf8 entry of the pool
FirstAttributeUnresolved ==
    /\ ~input.wf /\ input.cut = input.len
    /\ input.class.magic = CafeBabe
    /\ input.class.pool = Pool1 /\ input.class.count = Len(Pool1) + 1
    /\ input.class.fields = <<>> /\ input.class.methods = <<>>
    /\ input.class.attributes # <<>>
    /\ \E name_index \in {input.class.attributes[1].name_index} :
          \/ name_index = 0
          \/ name_index > Len(Pool1)
          \/ Pool1[name_index].kind # "Utf8"

\* C18: when the name index of an attribute is not the index of a Utf8
\* entry (another kind of entry, 0, or past the pool), ClassFile::parse
\* returns the InvalidIndex error; it does not abort.
C18_UnresolvedNameIsInvalidIndex ==
    (result # NotRun /\ FirstAttributeUnresolved) => result = Err(InvalidIndex)

\* the attributes the method the call is about was written with, and the
\* places of the Code attributes among them
MethodWritten == input.class.methods[call.index].attributes
CodePlaces == {j \in 1..Len(MethodWritten) : MethodWritten[j].k = "code"}
FirstCodeWritten == MethodWritten[CHOOSE j \in CodePlaces : \A k \in CodePlaces : j <= k]

\* C20: Method::code() and Method::maxs() answer with the code bytes and
\* the (max_stack, max_locals) of the first Code attribute of the method,
\* and with none when the method has no Code attribute.
C20_FirstCodeAttributeAnswers ==
    (Complete /\ call # NoCall) =>
        IF CodePlaces = {} THEN ret = None
        ELSE /\ call.op = "Method::code" => ret = Some(FirstCodeWritten.code)
             /\ call.op = "Method::maxs" =>
                   ret = Some(<<FirstCodeWritten.max_stack,
                                FirstCodeWritten.max_locals>>)

\* code() has answered for a method whose first attribute is not a Code and
\* whose two Code attributes differ
C20_Witness ==
    /\ Complete /\ call # NoCall /\ call.op = "Method::code"
    /\ Cardinality(CodePlaces) = 2 /\ 1 \notin CodePlaces
    /\ \E j \in CodePlaces : MethodWritten[j].code # FirstCodeWritten.code
    /\ ret = Some(FirstCodeWritten.code)

\* the declared count was read and nothing but the pool is left to decode:
\* the magic is right, the count is 0 or the one of the entries that
\* follow, and the class has no field, method or attribute
PoolDecides ==
    /\ result # NotRun
    /\ input.class.magic = CafeBabe /\ input.cut >= 10
    /\ input.class.count \in {0, Len(input.class.pool) + 1}
    /\ input.class.fields = <<>> /\ input.class.methods = <<>>
    /\ input.class.attributes = <<>>

\* C24: whatever the declared count of the pool is, 0 included, parsing
\* the pool ends with a value, a pool or a parse error, and does not abort.
C24_AnyCountGivesAResult ==
    PoolDecides => result.t \in {"Ok", "Err"}

(***************************************************************************)
(* Properties of the lookups.                                              *)
(***************************************************************************)
Items == cf.constant_pool.items
InPool(i) == i \in 1..Len(Items)
IsKind(i, kind) == InPool(i) /\ Items[i].kind = kind
TypedLookups == {"utf8", "integer", "name_and_type", "class", "field", "method"}

\* C8: a typed lookup returns the payload of the entry at its index when
\* that entry (and, for class and name_and_type, every entry it refers to)
\* is of the expected kind, and aborts otherwise; it never returns a default.
C8_TypedLookupOrAbort ==
    call.op \in TypedLookups =>
        /\ ret.t \in {"Ok", "Panic"}
        /\ call.op = "utf8" =>
              ret = (IF IsKind(call.index, "Utf8")
                     THEN Ok(Items[call.index].data) ELSE Panic)
        /\ call.op = "integer" =>
              ret = (IF IsKind(call.index, "Integer")
                     THEN Ok(Items[call.index].v) ELSE Panic)
        /\ call.op = "field" =>
              ret = (IF IsKind(call.index, "Field")
                     THEN Ok(<<Items[call.index].a, Items[call.index].b>>)
                     ELSE Panic)
        /\ call.op = "method" =>
              ret = (IF IsKind(call.index, "Method")
                     THEN Ok(<<Items[call.index].a, Items[call.index].b>>)
                     ELSE Panic)
        /\ call.op = "class" =>
              ret = (IF /\ IsKind(call.index, "Class")
                        /\ IsKind(Items[call.index].a, "Utf8")
                     THEN Ok(Items[Items[call.index].a].data) ELSE Panic)
        /\ call.op = "name_and_type" =>
              ret = (IF /\ IsKind(call.index, "NameAndType")
                        /\ IsKind(Items[call.index].a, "Utf8")
                        /\ IsKind(Items[call.index].b, "Utf8")
                     THEN Ok(<<Items[Items[call.index].a].data,
                               Items[Items[call.index].b].data>>)
                     ELSE Panic)

\* utf8 was asked for an entry that exists but is of another kind
C8_Witness ==
    /\ call.op = "utf8" /\ InPool(call.index)
    /\ Items[call.index].kind = "Integer"
    /\ ret = Panic

\* both names of method j resolve
Resolves(j) ==
    /\ IsKind(cf.methods[j].name_index, "Utf8")
    /\ IsKind(cf.methods[j].descriptor_index, "Utf8")
\* method j has the name and the descriptor of the call
Matches(j) ==
    /\ Resolves(j)
    /\ Items[cf.methods[j].name_index].data = call.name
    /\ Items[cf.methods[j].descriptor_index].data = call.descriptor

\* C10: get_method returns the first method, in list order, whose resolved
\* name and resolved descriptor both equal the arguments: nothing before the
\* returned position matches, a method matching in name only or descriptor
\* only is not returned, and when a match exists and the names of the
\* methods before it resolve the call returns.
C10_GetMethodFirstMatch ==
    call.op = "get_method" =>
        /\ ret.t = "Ok" =>
              /\ ret.v.pos \in 1..Len(cf.methods)
              /\ ret.v.method = cf.methods[ret.v.pos]
              /\ Matches(ret.v.pos)
              /\ \A j \in 1..(ret.v.pos - 1) : ~Matches(j)
        /\ \A j \in 1..Len(cf.methods) :
              (Matches(j) /\ \A k \in 1..(j - 1) : Resolves(k))
              => ret.t = "Ok"

\* two methods match, the first was returned, and a method before it
\* matched in name only
C10_Witness ==
    /\ call.op = "get_method" /\ ret.t = "Ok"
    /\ ret.v.pos = 2
    /\ Len(cf.methods) = 3 /\ Matches(3)
    /\ cf.methods[3] # cf.methods[2]
    /\ Items[cf.methods[1].name_index].data = call.name

(***************************************************************************)
(* Properties of the cursor.                                               *)
(***************************************************************************)
CursorOps == {"read_bytes", "advance", "read"}

\* C11: no call on a Stream aborts, whatever the calls before it; and
\* read_bytes(n) at offset o returns the n bytes [o, o + n) and moves the
\* offset to o + n when o + n is within the buffer, and returns none and
\* leaves the offset alone otherwise (so also once an advance has moved the
\* offset past the end).  The code aborts in a build with overflow checks
\* when offset + len exceeds the largest usize.
C11_CursorNeverAborts ==
    call.op \in CursorOps =>
        /\ ret # Panic
        /\ call.op = "read_bytes" =>
              IF call.at + call.len <= Len(data)
              THEN /\ ret = Ok(Some(SubSeq(data, call.at + 1, call.at + call.len)))
                   /\ stream.offset = call.at + call.len
              ELSE /\ ret = Ok(None)
                   /\ stream.offset = call.at

(***************************************************************************)
(* Properties of frames and threads.                                       *)
(***************************************************************************)
\* execute has returned a value
Executed == thread.at \in {"match", "run", "returned"} /\ current # NoFrame
\* the number of instructions among the first n of the current code with
\* the given opcode
RECURSIVE CountOp(_, _)
CountOp(op, n) ==
    IF n = 0 THEN 0
    ELSE CountOp(op, n - 1) + (IF current.code[n].op = op THEN 1 ELSE 0)
\* the current code is made of bipush and istore only
PushStoreOnly ==
    \A i \in 1..Len(current.code) : current.code[i].op \in {"Bipush", "Istore"}
Scenario == <<Bipush(5), Bipush(10), Istore(0)>>
\* the first istore that finds the stack empty, in code of bipush and
\* istore: 0 when there is none
FirstUnderflow ==
    The({ IF ks = {} THEN 0 ELSE CHOOSE k \in ks : \A j \in ks : k <= j
        : ks \in {{k \in 1..Len(current.code) :
                     /\ current.code[k].op = "Istore"
                     /\ CountOp("Bipush", k - 1) = CountOp("Istore", k - 1)}} })

\* C12: executing a frame whose Code attribute holds no instruction returns
\* Finished at once: no loop body is entered, pc is 0 and the operand stack
\* is empty.
C12_EmptyCodeFinishes ==
    (Executed /\ current.code = <<>>) =>
        /\ ret = Ok(Finished)
        /\ current.executed = 0
        /\ current.frame.pc = 0
        /\ current.frame.operand_stack = <<>>

C12_Witness ==
    /\ thread.at = "match" /\ current # NoFrame /\ current.code = <<>>
    /\ ret = Ok(Finished)

\* C13: in code made of bipush and istore the operand stack after pc
\* instructions is #bipush - #istore deep, a bipush leaves its immediate on
\* top as one Integer, an istore leaves what was below the top, and code
\* that never underflows finishes; bipush 5, bipush 10, istore 0 ends with
\* the stack [5].
C13_PushStoreDiscipline ==
    (thread.at \in {"execute", "match"} /\ PushStoreOnly) =>
        /\ ret.t # "Panic"
        /\ Len(current.frame.operand_stack)
              = CountOp("Bipush", current.frame.pc)
                - CountOp("Istore", current.frame.pc)
        /\ \A i \in 1..Len(current.frame.operand_stack) :
              current.frame.operand_stack[i].kind = "Integer"
        /\ (current.frame.pc > 0
            /\ current.code[current.frame.pc].op = "Bipush") =>
              current.frame.operand_stack[Len(current.frame.operand_stack)]
                 = OperandItem_Integer(current.code[current.frame.pc].value)
        /\ (thread.at = "match" /\ current.code = Scenario) =>
              /\ ret = Ok(Finished)
              /\ current.frame.operand_stack = <<OperandItem_Integer(5)>>
        /\ (thread.at = "match" /\ current.code = <<Bipush(5), Istore(0), Bipush(10)>>)
              => current.frame.operand_stack = <<OperandItem_Integer(10)>>

C13_Witness ==
    /\ thread.at = "match" /\ current.code = Scenario
    /\ current.frame.pc = 3 /\ Len(current.frame.operand_stack) = 1

\* C14: execute returns StackUnderflow exactly when it comes to an istore
\* with the operand stack empty, and then at once: the pc is that of the
\* istore, the operand stack is still empty, no loop body after it was
\* entered, and run does not go on.
C14_UnderflowIsReported ==
    /\ (thread.at = "match" /\ ret.t = "Err") =>
          /\ ret = Err(StackUnderflow)
          /\ current.frame.pc < Len(current.code)
          /\ current.code[current.frame.pc + 1].op = "Istore"
          /\ current.frame.operand_stack = <<>>
          /\ current.executed = current.frame.pc + 1
    /\ (/\ thread.at \in {"match", "run", "returned"} /\ current # NoFrame
        /\ current.executed > 0
        /\ current.code[current.executed].op = "Istore"
        /\ current.frame.pc = current.executed - 1)
          => thread.at = "match" /\ ret = Err(StackUnderflow)
    /\ (Executed /\ ret = Ok(Finished)) =>
          current.frame.pc = Len(current.code)
    /\ (thread.at = "match" /\ PushStoreOnly) =>
          IF FirstUnderflow = 0 THEN ret = Ok(Finished)
          ELSE /\ ret = Err(StackUnderflow)
               /\ current.frame.pc = FirstUnderflow - 1

\* an istore after other instructions found the stack empty
C14_Witness ==
    /\ thread.at = "match" /\ ret = Err(StackUnderflow)
    /\ current.frame.pc = 2 /\ Len(current.code) = 3
    /\ current.code[1].op = "Bipush"

\* the thread has stopped: returned, aborted, or left with an error
Stopped ==
    \/ thread.at \in {"returned", "panicked"}
    \/ thread.at = "match" /\ ret.t = "Err"

\* C16: a new thread holds exactly one frame, with pc 0 and an empty
\* operand stack, for the entry method; run stops; once execute has
\* returned Finished run returns; and when run has returned the call stack
\* is empty.
C16_ThreadRunsToEmptyStack ==
    /\ Len(thread.stack) = 1
    /\ thread.stack[1] = [constant_pool |-> cf.constant_pool,
                          method |-> cf.methods[1], pc |-> 0,
                          operand_stack |-> <<>>]
    /\ [](thread.at = "returned" => thread.stack = <<>>)
    /\ <>Stopped
    /\ []((thread.at = "match" /\ ret = Ok(Finished))
             => <>(thread.at = "returned" /\ thread.stack = <<>>))

C16_Witness ==
    /\ thread.at = "returned" /\ thread.stack = <<>>
    /\ ret = Ok(Finished) /\ current.frame.pc = 3

\* the instruction the next pass of the loop of execute is about
AtInstruction ==
    thread.at = "execute" /\ current.frame.pc < Len(current.code)
Fetched == current.code[current.frame.pc + 1]
Top == current.frame.operand_stack[Len(current.frame.operand_stack)]

\* C21: istore n with the Integer v on top of the operand stack pops v and
\* leaves it in local slot n of the frame; the other slots are as they
\* were.
C21_IstoreStoresLocal ==
    [][(/\ AtInstruction /\ Fetched.op = "Istore"
        /\ current.frame.operand_stack # <<>> /\ Top.kind = "Integer")
          => /\ current'.frame.operand_stack
                   = SubSeq(current.frame.operand_stack, 1,
                            Len(current.frame.operand_stack) - 1)
             /\ "locals" \in DOMAIN current'.frame
             /\ current'.frame.locals[Fetched.index] = Top.v
             /\ \A n \in DOMAIN current'.frame.locals \ {Fetched.index} :
                   /\ "locals" \in DOMAIN current.frame
                   /\ current'.frame.locals[n] = current.frame.locals[n]]_vars

\* the pass of the loop about the fetched instruction ran to its end
WentOn == thread'.at = "execute"

\* C22: the pc is a byte offset into the code bytes: a pass of the loop
\* over a bipush moves it on by the 2 bytes of a bipush, one over a
\* getstatic or an invokevirtual by their 3 bytes.
C22_PcIsByteOffset ==
    [][(AtInstruction /\ WentOn) =>
          /\ Fetched.op = "Bipush" =>
                current'.frame.pc = current.frame.pc + 2
          /\ Fetched.op \in {"Getstatic", "Invokevirtual"} =>
                current'.frame.pc = current.frame.pc + 3]_vars

ResolvesOperand == Fetched.op \in {"Getstatic", "Invokevirtual"}

\* C23: a pass of the loop over a getstatic or an invokevirtual leaves the
\* operand stack and the call stack as they were and returns nothing; when
\* the operand resolves through the pool the pc is on the next
\* instruction, and when it does not the lookup has aborted.  No pass of
\* the loop, whatever the instruction, changes the constant pool of the
\* frame or of the class.
C23_ResolveOnly ==
    [][AtInstruction =>
          /\ current'.frame.constant_pool = current.frame.constant_pool
          /\ cf' = cf
          /\ ResolvesOperand =>
                /\ current'.frame.operand_stack = current.frame.operand_stack
                /\ thread'.stack = thread.stack
                /\ \/ WentOn /\ ret' = ret
                         /\ current'.frame.pc = current.frame.pc + 1
                   \/ thread'.at = "panicked"
                         /\ current'.frame.pc = current.frame.pc]_vars

\* execute went past a getstatic and an invokevirtual with an operand on
\* the stack
C23_Witness ==
    /\ thread.at = "execute" /\ current.frame.pc = 3
    /\ current.code[1].op = "Bipush"
    /\ current.code[2].op = "Getstatic"
    /\ current.code[3].op = "Invokevirtual"
    /\ Len(current.frame.operand_stack) = 1

\* the instruction of the last pass of the loop that was entered
LastEntered == current.code[current.executed]

\* C25: every element of the operand stack of a frame is an Integer in
\* every state, so no istore finds anything else on top: execute never
\* aborts in an istore.
C25_OnlyIntegersOnStack ==
    current # NoFrame =>
        /\ \A i \in 1..Len(current.frame.operand_stack) :
              current.frame.operand_stack[i].kind = "Integer"
        /\ (thread.at = "panicked" /\ current.executed > 0) =>
              LastEntered.op # "Istore"

\* an istore has popped the Integer an ldc pushed, below it the one a
\* bipush pushed
C25_Witness ==
    /\ thread.at = "execute" /\ current.frame.pc = 3
    /\ current.code = <<Bipush(5), Ldc(1), Istore(0)>>
    /\ current.frame.operand_stack = <<OperandItem_Integer(5)>>

\* C26: in execute the pc is between 0 and the number of instructions and
\* is the number of passes of the loop that ran to their end, so it never
\* goes down and goes up by one per executed instruction; no more passes
\* are entered than there are instructions and execute comes to an end; it
\* returns Finished exactly when the pc is the number of instructions and
\* an error otherwise.
C26_PcCountsInstructions ==
    /\ [](current # NoFrame =>
             /\ 0 <= current.frame.pc
             /\ current.frame.pc <= Len(current.code)
             /\ current.executed <= Len(current.code)
             /\ thread.at = "execute" => current.frame.pc = current.executed
             /\ thread.at = "match" =>
                   /\ ret = Ok(Finished) <=> current.frame.pc = Len(current.code)
                   /\ ret # Ok(Finished) =>
                         /\ ret.t = "Err"
                         /\ current.frame.pc = current.executed - 1)
    /\ [][AtInstruction =>
             /\ current'.executed = current.executed + 1
             /\ IF WentOn THEN current'.frame.pc = current.frame.pc + 1
                ELSE current'.frame.pc = current.frame.pc]_vars
    /\ (thread.at = "execute") ~> (thread.at # "execute")

\* execute has returned Finished after as many passes as the code has
\* instructions
C26_Witness ==
    /\ thread.at = "match" /\ ret = Ok(Finished)
    /\ Len(current.code) = 3 /\ current.frame.pc = 3 /\ current.executed = 3

\* C27: execute returns Finished or an error and never NextFrame; run
\* pops and executes one frame, the one of the entry method, and the call
\* stack holds that frame before and nothing from then on.
C27_OneFrameOnly ==
    /\ ret \in {NotRun, Panic, Ok(Finished), Err(StackUnderflow)}
    /\ Len(thread.stack) <= 1
    /\ thread.at \in {"execute", "match", "panicked"} => current # NoFrame
    /\ IF current = NoFrame
       THEN thread.at = "run" /\ Len(thread.stack) = 1
       ELSE /\ thread.stack = <<>>
            /\ current.frame.method = cf.methods[1]
            /\ current.frame.constant_pool = cf.constant_pool

\* run has returned after its one frame finished code of two instructions
C27_Witness ==
    /\ thread.at = "returned" /\ current # NoFrame
    /\ ret = Ok(Finished) /\ Len(current.code) = 2
    /\ thread.stack = <<>>

(***************************************************************************)
(* Properties of parse_class.                                              *)
(***************************************************************************)
ParsedClass == result.t = "Ok"
WholeFile == input.cut = input.len

\* the Code attributes the file was written with
CodesWritten ==
    {input.class.attributes[i] :
        i \in {j \in 1..Len(input.class.attributes) :
                  input.class.attributes[j].k = "code"}}
    \cup UNION {{input.class.methods[m].attributes[i] :
                    i \in {j \in 1..Len(input.class.methods[m].attributes) :
                              input.class.methods[m].attributes[j].k = "code"}} :
                m \in 1..Len(input.class.methods)}

\* a Code attribute one of whose opcodes the decoder does not know
UnknownOpcodeWritten ==
    \E c \in CodesWritten :
       /\ "insts" \in DOMAIN c
       /\ \E i \in 1..Len(c.insts) : c.insts[i] \in UnknownInsts

FlagsAndIndicesOnly ==
    \E f \in FlagBits, c \in ClassIndices, s \in ClassIndices :
       input.class = [ClassDesc(Pool1, <<>>, <<>>, <<>>, <<>>) EXCEPT
                         !.access_flags = f, !.this_class = c, !.super_class = s]

\* C17: parse_class stores the access flags, this_class and super_class as
\* they were read, whatever the 16 bits of each are, and does not fail on
\* account of them.
C17_FlagsAndIndicesVerbatim ==
    /\ (result # NotRun /\ FlagsAndIndicesOnly) => ParsedClass
    /\ (ParsedClass /\ WholeFile) =>
          /\ result.v.access_flags = input.class.access_flags
          /\ result.v.this_class = input.class.this_class
          /\ result.v.super_class = input.class.super_class

\* the wide constants among the entries parse_class read
WideRead == CountKind(result.v.constant_pool.items, {"Long", "Double"})

\* C19: a Long or Double takes two slots of the pool: of a pool declared
\* with count N that holds k of them, N - 1 - k entries are read, and the
\* entry after a wide one at index i is the one `get` returns for i + 2.
C19_WideConstantTakesTwoSlots ==
    ParsedClass =>
       /\ Len(result.v.constant_pool.items) + WideRead = input.class.count - 1
       /\ \A i \in 1..(Len(result.v.constant_pool.items) - 1) :
             result.v.constant_pool.items[i].kind \in {"Long", "Double"} =>
                get(result.v.constant_pool, i + 1)
                    # Ok(result.v.constant_pool.items[i + 1])

====
